---- MODULE Spec2Model ----
(***************************************************************************)
(* Heat pump coordinator: the coordination cycle of HeatPumpCoordinator    *)
(* (src/src/coordinator/heat-pump-coordinator.ts) over the StateManager    *)
(* (src/src/server.ts, lines 605-893), the device collaborator and the     *)
(* weather source.  A handler is a sequence of steps, one per stretch of   *)
(* code between two suspension points (await of a device call, of the      *)
(* weather fetch, of the inter-action delay).                              *)
(*                                                                         *)
(* Specifications: Spec, the program from construction with its request    *)
(* handlers one at a time; SpecDecide, the decision step of a cycle on     *)
(* every stored state of a bounded set; SpecConc, the lifecycle (start,    *)
(* stop, timer) with handlers interleaved at their awaits; SpecFault, the  *)
(* started coordinator with units that drop off the network at any moment  *)
(* and cycles that raise an exception; SpecLogs, the two logs of the       *)
(* StateManager at their limits; SpecWeather, the WeatherService;          *)
(* SpecStore, the StateManager's updateGlobalMode and updateMiniSplitState *)
(* with the events they record; SpecConflicts, the conflict log under a    *)
(* cycle's detectConflicts and resolveConflict; SpecEmergency,             *)
(* emergencyOff against a cycle in flight; SpecModes, the modes that       *)
(* reach the store; SpecPersist, saveState and loadState.                  *)
(*                                                                         *)
(* Not modelled: lastUpdated and lastOutsideWeatherUpdate, the display     *)
(* fields name/room/priority, state.outsideTemperature (written by every   *)
(* cycle, read only by the status report).  The mode-change and conflict   *)
(* logs are written but never read by a decision; they are recorded in     *)
(* SpecLogs, SpecStore and SpecConflicts, and the other specifications     *)
(* leave them as they are.  In the same way the coordinator's              *)
(* specifications take the answer of the WeatherService as the input       *)
(* weather.                                                                *)
(***************************************************************************)
EXTENDS Integers, Sequences, FiniteSets, TLC

\* ------------------------------------------------------------ constants

\* config.deviceIds, in configured order (also the insertion order of the
\* miniSplits map, which initializeDeviceStates fills in the constructor).
deviceIds == <<"u1", "u2">>

Units == {deviceIds[i] : i \in 1..Len(deviceIds)}

Modes == {"heat", "cool", "off"}

\* initializeDefaultState
DefaultMinTemp == 68

DefaultMaxTemp == 72

\* updateMiniSplitState / initializeDeviceStates default temperature
DefaultUnitTemp == 70

\* updateGlobalTemperatureRange limits
RangeFloor == 50

RangeCeiling == 90

\* The JavaScript number NaN (parseInt of a missing or non-numeric request
\* field).  Every comparison with it is false; it is falsy.
NaN == -1

\* Handlers of the process that can be in flight at the same time: start(),
\* stop(), the setInterval callback, one HTTP/bridge request.
Procs == {"start", "stop", "timer", "api"}

\* ------------------------------------------------- inputs of the model

\* What getWeatherData can return (degrees F).
WeatherTemps == {60, 68, 85}

\* The active schedule (getActiveSchedule): none, or one with these setpoints.
NoSchedule == [active |-> FALSE, targetMinTemp |-> 0, targetMaxTemp |-> 0]

Schedules == {NoSchedule, [active |-> TRUE, targetMinTemp |-> 69, targetMaxTemp |-> 73]}

\* Arguments that reach setGlobalTemperatureRange(Immediate).
RangeInputs == { <<68, 72>>, <<69, 73>>, <<72, 68>>, <<70, 70>>, <<40, 72>>,
                 <<68, 95>>, <<NaN, NaN>> }

\* Setpoints a user can dial on a unit, as the device reports them.
UserSetpoints == {[value |-> 23, unit |-> "C"]}

\* The reading of a unit's room temperature.
RoomReading == [value |-> 21, unit |-> "C"]

VARIABLES
    \* StateManager.state
    globalMode, globalMinTemp, globalMaxTemp, miniSplits,
    \* StateManager: the last coordinator-initiated temperature write per unit
    coordinatorTemperatureSet,
    \* HeatPumpCoordinator
    isRunning, coordinationTimer,
    \* each handler's position and locals
    pc, kind, idx, systemMode, actions,
    \* the device commands a handler has sent so far, in order, and whether
    \* the handler has so far run authenticated with every command succeeding
    issued, clean,
    \* every call a handler has made to the device collaborator so far, with
    \* its outcome, and the conflicts list of the cycle in flight
    trace, cycleConflicts,
    \* whether the last completed handler was a coordination cycle with
    \* nothing else since: "none", "done", "clean" (authenticated, all
    \* commands succeeded)
    lastCycle,
    \* environment: the collaborator, the devices, the weather, the clock
    authenticated, dev, weather, schedule,
    \* StateManager.state: the mode-change log and the conflict log
    modeChangeHistory, conflicts,
    \* the reply of the coordinator API route that answered without calling
    \* the coordinator
    response,
    \* WeatherService: Date.now(), lastFetchTime, cachedData, and what the
    \* last getWeatherData call returned
    clock, lastFetchTime, cachedData, weatherResult

vars == << globalMode, globalMinTemp, globalMaxTemp, miniSplits,
           coordinatorTemperatureSet, isRunning, coordinationTimer,
           pc, kind, idx, systemMode, actions, issued, clean, trace,
           cycleConflicts, lastCycle, authenticated, dev, weather, schedule,
           modeChangeHistory, conflicts, response, clock, lastFetchTime,
           cachedData, weatherResult >>

smVars == << globalMode, globalMinTemp, globalMaxTemp, miniSplits,
             coordinatorTemperatureSet >>

envVars == << authenticated, dev, weather, schedule >>

\* the logs of the StateManager, the reply of the API route in flight and
\* the WeatherService
svcVars == << modeChangeHistory, conflicts, response, clock, lastFetchTime,
             cachedData, weatherResult >>

\* ------------------------------------------------- JavaScript numbers

IsNaN(x) == x = NaN

NumLT(a, b) == ~IsNaN(a) /\ ~IsNaN(b) /\ a < b

NumGT(a, b) == NumLT(b, a)

NumGE(a, b) == ~IsNaN(a) /\ ~IsNaN(b) /\ a >= b

NumLE(a, b) == NumGE(b, a)

\* a || b on numbers: 0 and NaN are falsy
NumOr(a, b) == IF a = 0 \/ IsNaN(a) THEN b ELSE a

\* Math.abs(a - b) >= 1
DeadbandExceeded(a, b) ==
    /\ ~IsNaN(a)
    /\ ~IsNaN(b)
    /\ (IF a >= b THEN a - b ELSE b - a) >= 1

\* Math.round((c * 9/5) + 32) for an integer c
CelsiusToFahrenheit(c) == ((18 * c + 5) \div 10) + 32

\* syncDeviceStates: normalise a reading to whole degrees F
NormalizeReading(r) == IF r.unit = "F" THEN r.value ELSE CelsiusToFahrenheit(r.value)

\* ------------------------------------------------------- StateManager

\* updateGlobalTemperatureRange accepts (does not throw)
RangeAccepted(minTemp, maxTemp) ==
    /\ ~NumGE(minTemp, maxTemp)
    /\ ~(NumLT(minTemp, RangeFloor) \/ NumGT(maxTemp, RangeCeiling))

\* updateMiniSplitState: the merged entry of deviceId in map ms
MergedUnit(ms, deviceId, updates) ==
    LET base == IF deviceId \in DOMAIN ms
                THEN [ currentTemperature |-> NumOr(ms[deviceId].currentTemperature, DefaultUnitTemp),
                       targetTemperature  |-> NumOr(ms[deviceId].targetTemperature, DefaultUnitTemp),
                       mode               |-> ms[deviceId].mode,
                       isOnline           |-> ms[deviceId].isOnline,
                       manualTemperatureOverride |-> ms[deviceId].manualTemperatureOverride ]
                ELSE [ currentTemperature |-> DefaultUnitTemp,
                       targetTemperature  |-> DefaultUnitTemp,
                       mode               |-> "off",
                       isOnline           |-> FALSE,
                       manualTemperatureOverride |-> FALSE ]
    IN [f \in DOMAIN base |-> IF f \in DOMAIN updates THEN updates[f] ELSE base[f]]

updateMiniSplitState(ms, deviceId, updates) ==
    [d \in (DOMAIN ms) \cup {deviceId} |->
        IF d = deviceId THEN MergedUnit(ms, deviceId, updates) ELSE ms[d]]

\* getAllMiniSplitStates: the entries in map order
getAllMiniSplitStates(ms) ==
    SelectSeq(deviceIds, LAMBDA d : d \in DOMAIN ms)

\* getOnlineMiniSplits
getOnlineMiniSplits(ms) ==
    SelectSeq(getAllMiniSplitStates(ms), LAMBDA d : ms[d].isOnline)

\* isTemperatureWithinGlobalRange
isTemperatureWithinGlobalRange(t, minTemp, maxTemp) ==
    NumGE(t, minTemp) /\ NumLE(t, maxTemp)

\* shouldRespectManualOverride: the unit's target was last changed by a
\* non-coordinator actor and lies in the global range
shouldRespectManualOverride(unit, minTemp, maxTemp) ==
    /\ unit.manualTemperatureOverride
    /\ isTemperatureWithinGlobalRange(unit.targetTemperature, minTemp, maxTemp)

\* Manual-override detection in the sync update: a target read from the
\* device that differs from the stored one and is not the coordinator's
\* last recorded write was set by the user.
DetectManualChange(existing, updates, recorded) ==
    IF /\ "targetTemperature" \in DOMAIN updates
       /\ updates.targetTemperature # existing.targetTemperature
       /\ updates.targetTemperature # recorded
    THEN [f \in (DOMAIN updates) \cup {"manualTemperatureOverride"} |->
            IF f = "manualTemperatureOverride" THEN TRUE ELSE updates[f]]
    ELSE updates

\* clearManualTemperatureOverride
clearManualTemperatureOverride(ms, deviceId) ==
    IF deviceId \in DOMAIN ms
    THEN [ms EXCEPT ![deviceId].manualTemperatureOverride = FALSE]
    ELSE ms

\* clearAllManualTemperatureOverrides
clearAllManualTemperatureOverrides(ms) ==
    [d \in DOMAIN ms |-> [ms[d] EXCEPT !.manualTemperatureOverride = FALSE]]

\* -------------------------------------------------- HeatPumpCoordinator

\* activeSchedule?.targetMinTemp || state.globalMinTemp
HeatingSetpoint(sched, minTemp) ==
    IF sched.active THEN NumOr(sched.targetMinTemp, minTemp) ELSE minTemp

\* activeSchedule?.targetMaxTemp || state.globalMaxTemp
CoolingSetpoint(sched, maxTemp) ==
    IF sched.active THEN NumOr(sched.targetMaxTemp, maxTemp) ELSE maxTemp

\* determineOptimalSystemMode with the thresholds themselves counted as
\* beyond them (<= and >= for < and >)
determineOptimalSystemModeInclusive(ms, gMode, minTemp, maxTemp, sched, outsideTemp) ==
    IF Len(getOnlineMiniSplits(ms)) = 0 THEN "off"
    ELSE IF NumLE(outsideTemp, HeatingSetpoint(sched, minTemp)) THEN "heat"
    ELSE IF NumGE(outsideTemp, CoolingSetpoint(sched, maxTemp)) THEN "cool"
    ELSE gMode

determineOptimalSystemMode(ms, gMode, minTemp, maxTemp, sched, outsideTemp) ==
    IF Len(getOnlineMiniSplits(ms)) = 0 THEN "off"
    ELSE IF NumLT(outsideTemp, HeatingSetpoint(sched, minTemp)) THEN "heat"
    ELSE IF NumGT(outsideTemp, CoolingSetpoint(sched, maxTemp)) THEN "cool"
    ELSE gMode

\* A CoordinationAction.  Its value is a mode for setMode and a number for
\* setTemperature; the two are kept in separate fields.
SetModeAction(d, m) ==
    [deviceId |-> d, action |-> "setMode", mode |-> m, temperature |-> 0]

SetTemperatureAction(d, t) ==
    [deviceId |-> d, action |-> "setTemperature", mode |-> "", temperature |-> t]

\* the mode part that leaves a unit alone when the target mode is off
ModeActionsExceptOff(ms, d, sysMode) ==
    IF ms[d].mode # sysMode /\ sysMode # "off" THEN <<SetModeAction(d, sysMode)>> ELSE << >>

\* generateCoordinationActions, the mode part of one loop iteration
ModeActions(ms, d, sysMode) ==
    IF ms[d].mode # sysMode THEN <<SetModeAction(d, sysMode)>> ELSE << >>

\* the target the loop body computes for a unit whose override is not respected
DesiredTemp(unit, sysMode, heating, cooling) ==
    IF sysMode = "heat" THEN heating
    ELSE IF sysMode = "cool" THEN cooling
    ELSE unit.targetTemperature

\* the temperature part with a deadband of more than one degree (> 1 for >= 1)
TemperatureActionsStrict(ms, d, sysMode, heating, cooling, minTemp, maxTemp) ==
    IF shouldRespectManualOverride(ms[d], minTemp, maxTemp) THEN << >>
    ELSE IF DeadbandExceeded(DesiredTemp(ms[d], sysMode, heating, cooling),
                             ms[d].targetTemperature)
            /\ DesiredTemp(ms[d], sysMode, heating, cooling) + 1 # ms[d].targetTemperature
            /\ DesiredTemp(ms[d], sysMode, heating, cooling) # ms[d].targetTemperature + 1
         THEN <<SetTemperatureAction(d, DesiredTemp(ms[d], sysMode, heating, cooling))>>
         ELSE << >>

\* the temperature part without the manual-override check
TemperatureActionsIgnoringOverride(ms, d, sysMode, heating, cooling, minTemp, maxTemp) ==
    IF DeadbandExceeded(DesiredTemp(ms[d], sysMode, heating, cooling),
                        ms[d].targetTemperature)
    THEN <<SetTemperatureAction(d, DesiredTemp(ms[d], sysMode, heating, cooling))>>
    ELSE << >>

\* the temperature part of one loop iteration (also the loop body of
\* setGlobalTemperatureRangeImmediate)
TemperatureActions(ms, d, sysMode, heating, cooling, minTemp, maxTemp) ==
    IF shouldRespectManualOverride(ms[d], minTemp, maxTemp) THEN << >>
    ELSE IF DeadbandExceeded(DesiredTemp(ms[d], sysMode, heating, cooling),
                             ms[d].targetTemperature)
         THEN <<SetTemperatureAction(d, DesiredTemp(ms[d], sysMode, heating, cooling))>>
         ELSE << >>

\* one loop iteration with the temperature action pushed before the mode action
UnitActionsTemperatureFirst(ms, d, sysMode, heating, cooling, minTemp, maxTemp) ==
    TemperatureActions(ms, d, sysMode, heating, cooling, minTemp, maxTemp)
        \o ModeActions(ms, d, sysMode)

\* one loop iteration of generateCoordinationActions
UnitActions(ms, d, sysMode, heating, cooling, minTemp, maxTemp) ==
    ModeActions(ms, d, sysMode)
        \o TemperatureActions(ms, d, sysMode, heating, cooling, minTemp, maxTemp)

RECURSIVE ActionsOver(_, _, _, _, _, _, _)
ActionsOver(units, ms, sysMode, heating, cooling, minTemp, maxTemp) ==
    IF units = << >> THEN << >>
    ELSE UnitActions(ms, Head(units), sysMode, heating, cooling, minTemp, maxTemp)
            \o ActionsOver(Tail(units), ms, sysMode, heating, cooling, minTemp, maxTemp)

generateCoordinationActions(ms, sysMode, minTemp, maxTemp, sched) ==
    ActionsOver(getOnlineMiniSplits(ms), ms, sysMode,
                HeatingSetpoint(sched, minTemp), CoolingSetpoint(sched, maxTemp),
                minTemp, maxTemp)

RECURSIVE TemperatureActionsOver(_, _, _, _, _)
TemperatureActionsOver(units, ms, sysMode, minTemp, maxTemp) ==
    IF units = << >> THEN << >>
    ELSE TemperatureActions(ms, Head(units), sysMode, minTemp, maxTemp, minTemp, maxTemp)
            \o TemperatureActionsOver(Tail(units), ms, sysMode, minTemp, maxTemp)

\* setGlobalTemperatureRangeImmediate: temperature-only actions
immediateTemperatureActions(ms, gMode, minTemp, maxTemp) ==
    TemperatureActionsOver(getOnlineMiniSplits(ms), ms, gMode, minTemp, maxTemp)

RECURSIVE SetModeOver(_, _, _)
SetModeOver(units, ms, m) ==
    IF units = << >> THEN << >>
    ELSE ModeActions(ms, Head(units), m) \o SetModeOver(Tail(units), ms, m)

\* setGlobalMode with a setMode for every unit of the map
globalModeActionsAllUnits(ms, m) ==
    [i \in 1..Len(getAllMiniSplitStates(ms)) |->
        SetModeAction(getAllMiniSplitStates(ms)[i], m)]

\* setGlobalMode: setMode for the online units in another mode
globalModeActions(ms, m) == SetModeOver(getOnlineMiniSplits(ms), ms, m)

\* emergencyOff over the online units only
emergencyOffOnlineOnly(ms) ==
    [i \in 1..Len(getOnlineMiniSplits(ms)) |->
        SetModeAction(getOnlineMiniSplits(ms)[i], "off")]

\* emergencyOff: setMode off for every unit of the map
emergencyOffActions(ms) ==
    [i \in 1..Len(getAllMiniSplitStates(ms)) |->
        SetModeAction(getAllMiniSplitStates(ms)[i], "off")]

\* --------------------------------------------------- device collaborator

\* getDeviceStatus / executeDeviceCommand succeed
DeviceCallSucceeds(d) == authenticated /\ dev[d].reachable

\* DeviceManager.convertToAirConditionerMode
convertToAirConditionerMode(mode) == IF mode \in Modes THEN mode ELSE "off"

\* what a successful command does to the device, an air conditioner
DeviceAfter(dv, a) ==
    IF a.action = "setMode"
    THEN [dv EXCEPT ![a.deviceId].mode = convertToAirConditionerMode(a.mode)]
    ELSE [dv EXCEPT ![a.deviceId].setpoint = [value |-> a.temperature, unit |-> "F"]]

\* the updates built from a status that carries no thermostatMode
StatusUpdatesWithoutMode(d) ==
    [ isOnline           |-> TRUE,
      currentTemperature |-> NormalizeReading(dev[d].temperature),
      targetTemperature  |-> NormalizeReading(dev[d].setpoint) ]

\* syncDeviceStates: the updates built from a unit's status
StatusUpdates(d) ==
    [ isOnline           |-> TRUE,
      currentTemperature |-> NormalizeReading(dev[d].temperature),
      targetTemperature  |-> NormalizeReading(dev[d].setpoint),
      mode               |-> dev[d].mode ]

\* a sync that forgets what it knew of a unit whose status fetch failed
SyncedUnitsForgetful(ms, d) ==
    IF DeviceCallSucceeds(d)
    THEN updateMiniSplitState(ms, d,
            DetectManualChange(ms[d], StatusUpdates(d), coordinatorTemperatureSet[d]))
    ELSE [ms EXCEPT ![d] =
            [ currentTemperature |-> DefaultUnitTemp, targetTemperature |-> DefaultUnitTemp,
              mode |-> "off", isOnline |-> FALSE, manualTemperatureOverride |-> FALSE ]]

\* syncDeviceStates: one iteration of the loop over deviceIds
SyncedUnits(ms, d) ==
    IF DeviceCallSucceeds(d)
    THEN updateMiniSplitState(ms, d,
            DetectManualChange(ms[d], StatusUpdates(d), coordinatorTemperatureSet[d]))
    ELSE updateMiniSplitState(ms, d, [isOnline |-> FALSE])

\* an execution loop that keeps no local record of a command that succeeded
UnitsAfterActionNone(ms, a) == ms

\* executeCoordinationActions: the local bookkeeping after a command succeeded
UnitsAfterAction(ms, a) ==
    IF a.action = "setTemperature"
    THEN updateMiniSplitState(ms, a.deviceId,
            [targetTemperature |-> a.temperature, manualTemperatureOverride |-> FALSE])
    ELSE ms

\* recordCoordinatorTemperatureSet
recordCoordinatorTemperatureSet(rec, a) ==
    IF a.action = "setTemperature"
    THEN [rec EXCEPT ![a.deviceId] = a.temperature]
    ELSE rec

\* a getDeviceStatus call and whether it returned a status
StatusCall(d, ok) == [call |-> "getStatus", deviceId |-> d, ok |-> ok]

\* a setThermostatMode / setThermostatTemperature call and whether it returned
CommandCall(a, ok) == [call |-> a.action, deviceId |-> a.deviceId, ok |-> ok]

\* detectConflicts: the kinds of the conflict strings it returns, computed
\* from the online units (the rapid-switching count reads the mode-change
\* log, which only SpecLogs records)
ActiveModes(ms) ==
    {ms[d].mode : d \in {u \in DOMAIN ms : ms[u].isOnline /\ ms[u].mode # "off"}}

OnlineTemps(ms) == {ms[d].currentTemperature : d \in {u \in DOMAIN ms : ms[u].isOnline}}

detectConflicts(ms) ==
    IF Len(getOnlineMiniSplits(ms)) < 2 THEN << >>
    ELSE (IF Cardinality(ActiveModes(ms)) > 1 THEN << "Mode conflict detected" >> ELSE << >>)
         \o (IF \E a, b \in OnlineTemps(ms) : b - a > 10
             THEN << "Large temperature variation detected" >> ELSE << >>)

\* ------------------------------------------------------------- state

\* no reply sent
NoResponse == [status |-> 0, error |-> ""]

\* cachedData = null
NoData == [isNull |-> TRUE, temperature |-> 0]

\* no getWeatherData call has returned
NoWeatherResult == [returned |-> FALSE, temperature |-> 0, log |-> "none"]

\* initializeDefaultState's empty logs, no reply in flight, and the
\* WeatherService after construction
InitServices ==
    /\ modeChangeHistory = << >>
    /\ conflicts = << >>
    /\ response = NoResponse
    /\ clock = 0
    /\ lastFetchTime = 0
    /\ cachedData = NoData
    /\ weatherResult = NoWeatherResult

InitialUnit ==
    [ currentTemperature |-> DefaultUnitTemp, targetTemperature |-> DefaultUnitTemp,
      mode |-> "off", isOnline |-> FALSE, manualTemperatureOverride |-> FALSE ]

InitialDevice ==
    [ mode |-> "off", setpoint |-> RoomReading, temperature |-> RoomReading,
      reachable |-> TRUE ]

\* a handler's locals while it is not in flight
IdleLocals ==
    /\ kind = [p \in Procs |-> "none"]
    /\ idx = [p \in Procs |-> 1]
    /\ systemMode = [p \in Procs |-> "off"]
    /\ actions = [p \in Procs |-> << >>]
    /\ issued = [p \in Procs |-> << >>]
    /\ clean = [p \in Procs |-> FALSE]
    /\ trace = [p \in Procs |-> << >>]
    /\ cycleConflicts = [p \in Procs |-> << >>]

\* The state after construction: initializeDefaultState, then
\* initializeDeviceStates for every configured unit.
InitProgram ==
    /\ globalMode = "off"
    /\ globalMinTemp = DefaultMinTemp
    /\ globalMaxTemp = DefaultMaxTemp
    /\ miniSplits = [d \in Units |-> InitialUnit]
    /\ coordinatorTemperatureSet = [d \in Units |-> 0]
    /\ isRunning = FALSE
    /\ coordinationTimer = FALSE
    /\ pc = [p \in Procs |-> "idle"]
    /\ IdleLocals
    /\ lastCycle = "none"
    /\ InitServices

AllIdle == \A p \in Procs : pc[p] = "idle"

CycleKinds == {"cycle", "start"}

\* ----------------------------------------------- a handler's last step

\* what the code after executeCoordinationActions does to globalMode:
\* updateGlobalMode(systemMode) in a cycle, updateGlobalMode('off') in
\* emergencyOff, nothing in setGlobalMode and setGlobalTemperatureRangeImmediate
FinishedGlobalMode(k, sm, gm) ==
    IF k \in CycleKinds THEN sm
    ELSE IF k = "emergency" THEN "off"
    ELSE gm

\* start() arms the interval after its first cycle returned
FinishedTimer(k, t) == IF k = "start" THEN TRUE ELSE t

FinishedLastCycle(k, c) ==
    IF k \in CycleKinds THEN (IF c THEN "clean" ELSE "done") ELSE "none"

\* a sync that runs its loop whether authenticated or not
SyncEntryAlways == "sync"

\* syncDeviceStates' first statement: skip the loop when not authenticated
SyncEntry == IF authenticated THEN "sync" ELSE "weather"

\* executeCoordinationActions' first statement: skip the list when not
\* authenticated; with an empty list the loop body never runs
ExecuteEntry(acts) == IF authenticated /\ acts # << >> THEN "exec" ELSE "commit"

\* ------------------------------------------------------- cycle steps

\* runCoordinationCycle is entered by handler p: the locals of the call
CycleEntry(p) ==
    /\ pc[p] = "idle"
    /\ pc' = [pc EXCEPT ![p] = SyncEntry]
    /\ kind' = [kind EXCEPT ![p] = "cycle"]
    /\ clean' = [clean EXCEPT ![p] = authenticated]
    /\ UNCHANGED << isRunning, coordinationTimer, idx, systemMode, actions, issued,
                    trace, cycleConflicts, envVars, svcVars >>

\* runCoordinationCycle is entered (timer tick or run-cycle request)
BeginCycle(p) ==
    /\ CycleEntry(p)
    /\ UNCHANGED << smVars, lastCycle >>

\* the setInterval callback of start()
TimerTick ==
    /\ coordinationTimer
    /\ BeginCycle("timer")

\* POST run-cycle
RunCycleRequest == BeginCycle("api")

\* one iteration of the loop of syncDeviceStates: await getDeviceStatus, then
\* updateMiniSplitState.  After the last unit of start()'s initial sync,
\* runCoordinationCycle begins with its own sync.
SyncUnit(p) ==
    /\ pc[p] \in {"presync", "sync"}
    /\ miniSplits' = SyncedUnits(miniSplits, deviceIds[idx[p]])
    /\ trace' = [trace EXCEPT ![p] =
          Append(trace[p], StatusCall(deviceIds[idx[p]], DeviceCallSucceeds(deviceIds[idx[p]])))]
    /\ IF idx[p] < Len(deviceIds)
       THEN /\ idx' = [idx EXCEPT ![p] = idx[p] + 1]
            /\ UNCHANGED << pc, clean >>
       ELSE /\ idx' = [idx EXCEPT ![p] = 1]
            /\ pc' = [pc EXCEPT ![p] = IF pc[p] = "presync" THEN SyncEntry ELSE "weather"]
            /\ clean' = [clean EXCEPT ![p] = clean[p] /\ authenticated]
    /\ UNCHANGED << globalMode, globalMinTemp, globalMaxTemp,
                    coordinatorTemperatureSet, isRunning, coordinationTimer, kind,
                    systemMode, actions, issued, cycleConflicts, lastCycle,
                    envVars, svcVars >>

\* getWeatherData returned: determineOptimalSystemMode, detectConflicts,
\* generateCoordinationActions, and executeCoordinationActions up to its first
\* device call
Decide(p) ==
    /\ pc[p] = "weather"
    /\ systemMode' = [systemMode EXCEPT ![p] =
          determineOptimalSystemMode(miniSplits, globalMode, globalMinTemp,
                                     globalMaxTemp, schedule, weather)]
    /\ cycleConflicts' = [cycleConflicts EXCEPT ![p] = detectConflicts(miniSplits)]
    /\ actions' = [actions EXCEPT ![p] =
          generateCoordinationActions(miniSplits, systemMode'[p], globalMinTemp,
                                      globalMaxTemp, schedule)]
    /\ clean' = [clean EXCEPT ![p] = clean[p] /\ authenticated]
    /\ pc' = [pc EXCEPT ![p] = ExecuteEntry(actions'[p])]
    /\ UNCHANGED << smVars, isRunning, coordinationTimer, kind, idx, issued, trace,
                    lastCycle, envVars, svcVars >>

\* an execution loop that gives up at the first command that fails
ExecuteActionAborting(p) ==
    /\ pc[p] = "exec"
    /\ LET a  == actions[p][idx[p]]
           ok == DeviceCallSucceeds(a.deviceId)
       IN /\ issued' = [issued EXCEPT ![p] = Append(issued[p], a)]
          /\ trace' = [trace EXCEPT ![p] = Append(trace[p], CommandCall(a, ok))]
          /\ dev' = IF ok THEN DeviceAfter(dev, a) ELSE dev
          /\ miniSplits' = IF ok THEN UnitsAfterAction(miniSplits, a) ELSE miniSplits
          /\ coordinatorTemperatureSet' =
                IF ok THEN recordCoordinatorTemperatureSet(coordinatorTemperatureSet, a)
                ELSE coordinatorTemperatureSet
          /\ clean' = [clean EXCEPT ![p] = clean[p] /\ ok]
          /\ IF ok /\ idx[p] < Len(actions[p])
             THEN /\ idx' = [idx EXCEPT ![p] = idx[p] + 1]
                  /\ UNCHANGED pc
             ELSE /\ idx' = [idx EXCEPT ![p] = 1]
                  /\ pc' = [pc EXCEPT ![p] = "commit"]
    /\ UNCHANGED << globalMode, globalMinTemp, globalMaxTemp, isRunning,
                    coordinationTimer, kind, systemMode, actions, cycleConflicts,
                    lastCycle, authenticated, weather, schedule, svcVars >>

\* one iteration of the loop of executeCoordinationActions: the device command,
\* on success the bookkeeping and the inter-action delay, on failure the catch
ExecuteAction(p) ==
    /\ pc[p] = "exec"
    /\ LET a  == actions[p][idx[p]]
           ok == DeviceCallSucceeds(a.deviceId)
       IN /\ issued' = [issued EXCEPT ![p] = Append(issued[p], a)]
          /\ trace' = [trace EXCEPT ![p] = Append(trace[p], CommandCall(a, ok))]
          /\ dev' = IF ok THEN DeviceAfter(dev, a) ELSE dev
          /\ miniSplits' = IF ok THEN UnitsAfterAction(miniSplits, a) ELSE miniSplits
          /\ coordinatorTemperatureSet' =
                IF ok THEN recordCoordinatorTemperatureSet(coordinatorTemperatureSet, a)
                ELSE coordinatorTemperatureSet
          /\ clean' = [clean EXCEPT ![p] = clean[p] /\ ok]
    /\ IF idx[p] < Len(actions[p])
       THEN /\ idx' = [idx EXCEPT ![p] = idx[p] + 1]
            /\ UNCHANGED pc
       ELSE /\ idx' = [idx EXCEPT ![p] = 1]
            /\ pc' = [pc EXCEPT ![p] = "commit"]
    /\ UNCHANGED << globalMode, globalMinTemp, globalMaxTemp, isRunning,
                    coordinationTimer, kind, systemMode, actions, cycleConflicts,
                    lastCycle, authenticated, weather, schedule, svcVars >>

\* the code after executeCoordinationActions returned, to the handler's end
Commit(p) ==
    /\ pc[p] = "commit"
    /\ pc' = [pc EXCEPT ![p] = "idle"]
    /\ globalMode' = FinishedGlobalMode(kind[p], systemMode[p], globalMode)
    /\ coordinationTimer' = FinishedTimer(kind[p], coordinationTimer)
    /\ lastCycle' = FinishedLastCycle(kind[p], clean[p])
    /\ kind' = [kind EXCEPT ![p] = "none"]
    /\ systemMode' = [systemMode EXCEPT ![p] = "off"]
    /\ actions' = [actions EXCEPT ![p] = << >>]
    /\ issued' = [issued EXCEPT ![p] = << >>]
    /\ clean' = [clean EXCEPT ![p] = FALSE]
    /\ trace' = [trace EXCEPT ![p] = << >>]
    /\ cycleConflicts' = [cycleConflicts EXCEPT ![p] = << >>]
    /\ UNCHANGED << globalMinTemp, globalMaxTemp, miniSplits,
                    coordinatorTemperatureSet, isRunning, idx, envVars, svcVars >>

\* an exception inside runCoordinationCycle's try block, raised while the
\* weather is awaited: control passes to the catch
CycleThrows(p) ==
    /\ pc[p] = "weather"
    /\ pc' = [pc EXCEPT ![p] = "caught"]
    /\ UNCHANGED << smVars, isRunning, coordinationTimer, kind, idx, systemMode,
                    actions, issued, clean, trace, cycleConflicts, lastCycle,
                    envVars, svcVars >>

\* generateReasoningExplanation: what the text is built from
generateReasoningExplanation(temp, sysMode, acts) ==
    [ error |-> FALSE, outsideTemperature |-> temp, systemMode |-> sysMode,
      adjustments |-> Len(acts) ]

\* a cycle without a catch: the result is always the one of the try block
CycleResultUncaught(p) ==
    [ success |-> TRUE, actions |-> actions[p],
      conflicts |-> cycleConflicts[p], systemMode |-> systemMode[p],
      reasoning |-> generateReasoningExplanation(weather, systemMode[p], actions[p]) ]

\* the CoordinationResult runCoordinationCycle is about to return to handler p:
\* the object built after updateGlobalMode, or the one built in the catch
CycleResult(p) ==
    IF pc[p] = "caught"
    THEN [ success |-> FALSE, actions |-> << >>,
           conflicts |-> << "Coordination failed" >>, systemMode |-> "off",
           reasoning |-> [ error |-> TRUE, outsideTemperature |-> 0,
                           systemMode |-> "off", adjustments |-> 0 ] ]
    ELSE [ success |-> TRUE, actions |-> actions[p],
           conflicts |-> cycleConflicts[p], systemMode |-> systemMode[p],
           reasoning |-> generateReasoningExplanation(weather, systemMode[p], actions[p]) ]

\* the catch of runCoordinationCycle returned its result, to the handler's
\* end: nothing is committed, and start() goes on to arm the interval
CaughtReturn(p) ==
    /\ pc[p] = "caught"
    /\ pc' = [pc EXCEPT ![p] = "idle"]
    /\ coordinationTimer' = FinishedTimer(kind[p], coordinationTimer)
    /\ lastCycle' = "none"
    /\ kind' = [kind EXCEPT ![p] = "none"]
    /\ systemMode' = [systemMode EXCEPT ![p] = "off"]
    /\ actions' = [actions EXCEPT ![p] = << >>]
    /\ issued' = [issued EXCEPT ![p] = << >>]
    /\ clean' = [clean EXCEPT ![p] = FALSE]
    /\ trace' = [trace EXCEPT ![p] = << >>]
    /\ cycleConflicts' = [cycleConflicts EXCEPT ![p] = << >>]
    /\ UNCHANGED << smVars, isRunning, idx, envVars, svcVars >>

\* ------------------------------------------------- manual API surface

\* updateGlobalTemperatureRange threw: the call fails before anything is done
RejectRange(p) ==
    /\ pc' = [pc EXCEPT ![p] = "rejected"]
    /\ UNCHANGED << smVars, isRunning, coordinationTimer, kind, idx, systemMode,
                    actions, issued, clean, trace, cycleConflicts, lastCycle,
                    envVars, svcVars >>

\* the caller's catch of a rejected call
Rejected(p) ==
    /\ pc[p] = "rejected"
    /\ pc' = [pc EXCEPT ![p] = "idle"]
    /\ UNCHANGED << smVars, isRunning, coordinationTimer, kind, idx, systemMode,
                    actions, issued, clean, trace, cycleConflicts, lastCycle,
                    envVars, svcVars >>

\* setGlobalTemperatureRange(minTemp, maxTemp): updateGlobalTemperatureRange
\* throws, or the range is set and a cycle runs
SetGlobalTemperatureRange(p, minTemp, maxTemp) ==
    /\ pc[p] = "idle"
    /\ IF RangeAccepted(minTemp, maxTemp)
       THEN /\ globalMinTemp' = minTemp
            /\ globalMaxTemp' = maxTemp
            /\ lastCycle' = "none"
            /\ CycleEntry(p)
            /\ UNCHANGED << globalMode, miniSplits, coordinatorTemperatureSet >>
       ELSE RejectRange(p)

\* setGlobalTemperatureRangeImmediate(minTemp, maxTemp)
SetGlobalTemperatureRangeImmediate(p, minTemp, maxTemp) ==
    /\ pc[p] = "idle"
    /\ IF RangeAccepted(minTemp, maxTemp)
       THEN /\ globalMinTemp' = minTemp
            /\ globalMaxTemp' = maxTemp
            /\ lastCycle' = "none"
            /\ kind' = [kind EXCEPT ![p] = "immediate"]
            /\ actions' = [actions EXCEPT ![p] =
                  immediateTemperatureActions(miniSplits, globalMode, minTemp, maxTemp)]
            /\ pc' = [pc EXCEPT ![p] = ExecuteEntry(actions'[p])]
            /\ UNCHANGED << globalMode, miniSplits, coordinatorTemperatureSet,
                            isRunning, coordinationTimer, idx, systemMode, issued,
                            clean, trace, cycleConflicts, envVars, svcVars >>
       ELSE RejectRange(p)

\* setGlobalMode(mode, reason)
SetGlobalMode(p, m) ==
    /\ pc[p] = "idle"
    /\ globalMode' = m
    /\ lastCycle' = "none"
    /\ kind' = [kind EXCEPT ![p] = "setMode"]
    /\ actions' = [actions EXCEPT ![p] = globalModeActions(miniSplits, m)]
    /\ pc' = [pc EXCEPT ![p] = ExecuteEntry(actions'[p])]
    /\ UNCHANGED << globalMinTemp, globalMaxTemp, miniSplits,
                    coordinatorTemperatureSet, isRunning, coordinationTimer, idx,
                    systemMode, issued, clean, trace, cycleConflicts, envVars,
                    svcVars >>

\* emergencyOff(reason)
EmergencyOff(p) ==
    /\ pc[p] = "idle"
    /\ lastCycle' = "none"
    /\ kind' = [kind EXCEPT ![p] = "emergency"]
    /\ actions' = [actions EXCEPT ![p] = emergencyOffActions(miniSplits)]
    /\ pc' = [pc EXCEPT ![p] = ExecuteEntry(actions'[p])]
    /\ UNCHANGED << smVars, isRunning, coordinationTimer, idx, systemMode, issued,
                    clean, trace, cycleConflicts, envVars, svcVars >>

\* clearManualOverride(deviceId)
ClearManualOverride(p, d) ==
    /\ miniSplits' = clearManualTemperatureOverride(miniSplits, d)
    /\ lastCycle' = "none"
    /\ CycleEntry(p)
    /\ UNCHANGED << globalMode, globalMinTemp, globalMaxTemp,
                    coordinatorTemperatureSet >>

\* clearAllManualOverrides()
ClearAllManualOverrides(p) ==
    /\ miniSplits' = clearAllManualTemperatureOverrides(miniSplits)
    /\ lastCycle' = "none"
    /\ CycleEntry(p)
    /\ UNCHANGED << globalMode, globalMinTemp, globalMaxTemp,
                    coordinatorTemperatureSet >>

\* ----------------------------------------- coordinator API routes

\* a field of a JSON request body, with its typeof
JsonNumber(n) == [type |-> "number", value |-> n]

JsonString == [type |-> "string", value |-> 0]

JsonMissing == [type |-> "undefined", value |-> 0]

\* the error texts of the 400 replies (without the degree signs)
InvalidModeError == "Invalid mode. Must be heat, cool, or off"

NotNumbersError == "Invalid temperature values. Both minTemp and maxTemp must be numbers"

RangeOrderError == "Minimum temperature must be less than maximum temperature"

RangeLimitsError == "Temperature range must be between 50F and 90F"

\* a mode check that only asks for a mode to be present
ValidModeAny(mode) == mode # ""

\* POST /mode: mode && validModes.includes(mode); a missing mode is ""
ValidMode(mode) == mode # "" /\ mode \in {"heat", "cool", "off"}

\* POST /temperature-range: the error of the first check that fails, "" if
\* none does
RangeError(minTemp, maxTemp) ==
    IF minTemp.type # "number" \/ maxTemp.type # "number" THEN NotNumbersError
    ELSE IF minTemp.value >= maxTemp.value THEN RangeOrderError
    ELSE IF minTemp.value < RangeFloor \/ maxTemp.value > RangeCeiling THEN RangeLimitsError
    ELSE ""

\* res.status(400).json({ error }): the route answers and returns
BadRequest(error) ==
    /\ pc' = [pc EXCEPT !["api"] = "replied"]
    /\ response' = [status |-> 400, error |-> error]
    /\ UNCHANGED << smVars, isRunning, coordinationTimer, kind, idx, systemMode,
                    actions, issued, clean, trace, cycleConflicts, lastCycle,
                    envVars, modeChangeHistory, conflicts, clock, lastFetchTime,
                    cachedData, weatherResult >>

\* the reply has gone out
ReplySent ==
    /\ pc["api"] = "replied"
    /\ pc' = [pc EXCEPT !["api"] = "idle"]
    /\ response' = NoResponse
    /\ UNCHANGED << smVars, isRunning, coordinationTimer, kind, idx, systemMode,
                    actions, issued, clean, trace, cycleConflicts, lastCycle,
                    envVars, modeChangeHistory, conflicts, clock, lastFetchTime,
                    cachedData, weatherResult >>

\* POST /mode with body { mode }
PostMode(mode) ==
    /\ pc["api"] = "idle"
    /\ IF ValidMode(mode)
       THEN SetGlobalMode("api", mode)
       ELSE BadRequest(InvalidModeError)

\* POST /temperature-range with body { minTemp, maxTemp }
PostTemperatureRange(minTemp, maxTemp) ==
    /\ pc["api"] = "idle"
    /\ IF RangeError(minTemp, maxTemp) = ""
       THEN SetGlobalTemperatureRangeImmediate("api", minTemp.value, maxTemp.value)
       ELSE BadRequest(RangeError(minTemp, maxTemp))

\* ------------------------------------------------------- start and stop

\* start() up to its first await (lightingMonitor.start)
StartCall ==
    /\ pc["start"] = "idle"
    /\ ~isRunning
    /\ isRunning' = TRUE
    /\ pc' = [pc EXCEPT !["start"] = "startLM"]
    /\ UNCHANGED << smVars, coordinationTimer, kind, idx, systemMode, actions, issued,
                    clean, trace, cycleConflicts, lastCycle, envVars, svcVars >>

\* start(): the lighting monitor started; the initial syncDeviceStates begins,
\* and when it is skipped, so is the sync of the first cycle
StartSync ==
    /\ pc["start"] = "startLM"
    /\ pc' = [pc EXCEPT !["start"] = IF authenticated THEN "presync" ELSE "weather"]
    /\ kind' = [kind EXCEPT !["start"] = "start"]
    /\ clean' = [clean EXCEPT !["start"] = authenticated]
    /\ UNCHANGED << smVars, isRunning, coordinationTimer, idx, systemMode, actions,
                    issued, trace, cycleConflicts, lastCycle, envVars, svcVars >>

\* stop() up to its await (lightingMonitor.stop): the interval is cleared
StopCall ==
    /\ pc["stop"] = "idle"
    /\ isRunning
    /\ coordinationTimer' = FALSE
    /\ pc' = [pc EXCEPT !["stop"] = "stopLM"]
    /\ UNCHANGED << smVars, isRunning, kind, idx, systemMode, actions, issued, clean,
                    trace, cycleConflicts, lastCycle, envVars, svcVars >>

\* stop(): the lighting monitor stopped; isRunning = false and stop returns
StopReturn ==
    /\ pc["stop"] = "stopLM"
    /\ isRunning' = FALSE
    /\ pc' = [pc EXCEPT !["stop"] = "idle"]
    /\ UNCHANGED << smVars, coordinationTimer, kind, idx, systemMode, actions, issued,
                    clean, trace, cycleConflicts, lastCycle, envVars, svcVars >>

\* ---------------------------------------------------------- environment

procVars == << isRunning, coordinationTimer, pc, kind, idx, systemMode, actions,
               issued, clean, trace, cycleConflicts >>

\* the collaborator gains or loses its credentials
AuthChange ==
    /\ authenticated' = ~authenticated
    /\ lastCycle' = "none"
    /\ UNCHANGED << smVars, procVars, dev, weather, schedule, svcVars >>

\* a user dials a setpoint on a unit
UserSetsTemperature(d, r) ==
    /\ dev[d].setpoint # r
    /\ dev' = [dev EXCEPT ![d].setpoint = r]
    /\ lastCycle' = "none"
    /\ UNCHANGED << smVars, procVars, authenticated, weather, schedule, svcVars >>

\* a unit drops off the network or comes back
ReachabilityChange(d) ==
    /\ dev' = [dev EXCEPT ![d].reachable = ~dev[d].reachable]
    /\ lastCycle' = "none"
    /\ UNCHANGED << smVars, procVars, authenticated, weather, schedule, svcVars >>

\* someone sets a unit's mode with its remote control
UserSetsMode(d, m) ==
    /\ dev[d].mode # m
    /\ dev' = [dev EXCEPT ![d].mode = m]
    /\ lastCycle' = "none"
    /\ UNCHANGED << smVars, procVars, authenticated, weather, schedule, svcVars >>

\* POST /coordinator/mode of the admin routes: the mode of the body is passed
\* to setGlobalMode as it is
AdminPostMode(mode) == SetGlobalMode("api", mode)

\* ------------------------------------------- StateManager: the logs

\* historyLimit and conflictLimit
historyLimit == 1000

conflictLimit == 100

\* how many events more than a log's limit the model creates
MaxOverflow == 10

\* a log as saveState wrote it: its events in the order of their creation,
\* an event being known by its timestamp
SavedLog(n) == [i \in 1..n |-> [timestamp |-> i]]

\* the event created after those of log
NewEvent(log) ==
    [timestamp |-> IF log = << >> THEN 1 ELSE log[Len(log)].timestamp + 1]

\* array.slice(-limit) of an array longer than limit
LastOf(log, limit) == SubSeq(log, Len(log) - limit + 1, Len(log))

\* a log that is never cut
addEventUnbounded(log, event, limit) == Append(log, event)

\* addModeChangeEvent / addConflictEvent: push, then cut to the limit
addEvent(log, event, limit) ==
    LET pushed == Append(log, event)
    IN IF Len(pushed) > limit THEN LastOf(pushed, limit) ELSE pushed

\* what is left unchanged by the logs
nonLogVars ==
    << smVars, procVars, lastCycle, envVars, response, clock, lastFetchTime,
       cachedData, weatherResult >>

\* addModeChangeEvent(...)
AddModeChangeEvent ==
    /\ NewEvent(modeChangeHistory).timestamp <= historyLimit + MaxOverflow
    /\ modeChangeHistory' =
          addEvent(modeChangeHistory, NewEvent(modeChangeHistory), historyLimit)
    /\ UNCHANGED << conflicts, nonLogVars >>

\* addConflictEvent(...)
AddConflictEvent ==
    /\ NewEvent(conflicts).timestamp <= conflictLimit + MaxOverflow
    /\ conflicts' = addEvent(conflicts, NewEvent(conflicts), conflictLimit)
    /\ UNCHANGED << modeChangeHistory, nonLogVars >>

\* ------------------------------ StateManager: what the store records

\* An optional value (deviceId?, outsideTemp?) is a sequence of at most one
\* element: << >> is undefined.
ModeChangeEvent(now, deviceId, previousMode, newMode, reason, outsideTemp) ==
    [ timestamp |-> now, deviceId |-> deviceId, previousMode |-> previousMode,
      newMode |-> newMode, reason |-> reason, outsideTemp |-> outsideTemp ]

\* a store that records a mode change at every call
globalModeHistoryAlways(log, now, previousMode, newMode, reason, outsideTemp) ==
    Append(log, ModeChangeEvent(now, << >>, previousMode, newMode, reason, outsideTemp))

\* updateGlobalMode: the history it leaves
globalModeHistory(log, now, previousMode, newMode, reason, outsideTemp) ==
    IF previousMode # newMode
    THEN addEvent(log, ModeChangeEvent(now, << >>, previousMode, newMode, reason, outsideTemp),
                  historyLimit)
    ELSE log

\* updateMiniSplitState: the history it leaves
unitModeHistory(log, now, ms, deviceId, updates) ==
    IF deviceId \in DOMAIN ms /\ ms[deviceId].mode # MergedUnit(ms, deviceId, updates).mode
    THEN addEvent(log, ModeChangeEvent(now, << deviceId >>, ms[deviceId].mode,
                                       MergedUnit(ms, deviceId, updates).mode,
                                       "user_request", << >>),
                  historyLimit)
    ELSE log

\* how many mode changes the model lets the store record
MaxEvents == 2

\* the callers of updateGlobalMode: the commit of a cycle, which passes the
\* outside temperature, and setGlobalMode, which passes none
GlobalModeCalls ==
    { [reason |-> "coordinator_logic", outsideTemp |-> << 60 >>],
      [reason |-> "manual_override", outsideTemp |-> << >>] }

\* the callers of updateMiniSplitState: initializeDeviceStates, a sync whose
\* status fetch succeeded (the unit reporting 0 F or 85 F), a sync whose fetch
\* failed, and the bookkeeping after a setTemperature command
InitialUpdates ==
    [ mode |-> "off", currentTemperature |-> DefaultUnitTemp,
      targetTemperature |-> DefaultUnitTemp, isOnline |-> FALSE ]

StoreUpdates ==
    {InitialUpdates}
    \cup { [ isOnline |-> TRUE,
             currentTemperature |-> NormalizeReading([value |-> t, unit |-> "F"]),
             targetTemperature |-> DefaultUnitTemp,
             mode |-> m ] : t \in {0, 85}, m \in Modes }
    \cup { [isOnline |-> FALSE] }
    \cup { [targetTemperature |-> DefaultMinTemp, manualTemperatureOverride |-> FALSE] }

\* what is left unchanged by the store's recording operations
nonStoreVars ==
    << globalMinTemp, globalMaxTemp, coordinatorTemperatureSet, procVars, lastCycle,
       envVars, response, clock, lastFetchTime, cachedData, weatherResult >>

\* StateManager.updateGlobalMode(newMode, reason, outsideTemp)
UpdateGlobalMode(newMode, reason, outsideTemp) ==
    /\ Len(modeChangeHistory) < MaxEvents
    /\ globalMode' = newMode
    /\ modeChangeHistory' =
          globalModeHistory(modeChangeHistory, clock, globalMode, newMode, reason, outsideTemp)
    /\ UNCHANGED << miniSplits, conflicts, nonStoreVars >>

\* StateManager.updateMiniSplitState(deviceId, updates)
UpdateMiniSplitState(deviceId, updates) ==
    /\ Len(modeChangeHistory) < MaxEvents
    /\ miniSplits' = updateMiniSplitState(miniSplits, deviceId, updates)
    /\ modeChangeHistory' =
          unitModeHistory(modeChangeHistory, clock, miniSplits, deviceId, updates)
    /\ UNCHANGED << globalMode, conflicts, nonStoreVars >>

\* ------------------------------------- the conflict log of the store

\* getRecentModeChanges(hours) at time now
getRecentModeChanges(log, now, hours) ==
    SelectSeq(log, LAMBDA event : event.timestamp > now - (hours * 60 * 60 * 1000))

\* detectConflicts: the online units that are not off, and their modes in
\* the order of their first appearance ([...new Set(activeModes)])
conflictingUnits(ms) == SelectSeq(getOnlineMiniSplits(ms), LAMBDA d : ms[d].mode # "off")

RECURSIVE uniqueModes(_, _)
uniqueModes(units, ms) ==
    IF units = << >> THEN << >>
    ELSE LET rest == uniqueModes(SubSeq(units, 1, Len(units) - 1), ms)
             m == ms[units[Len(units)]].mode
         IN IF \E i \in 1..Len(rest) : rest[i] = m THEN rest ELSE Append(rest, m)

\* detectConflicts: the strings it returns, the count of recent mode changes
\* included
detectConflictsAt(ms, log, now) ==
    IF Len(getOnlineMiniSplits(ms)) < 2 THEN << >>
    ELSE detectConflicts(ms)
         \o (IF Len(getRecentModeChanges(log, now, 1)) > 3
             THEN << "Rapid mode switching detected" >> ELSE << >>)

\* addConflictEvent's event; description holds what the text is made of
ConflictEvent(now, conflictType, description, ids) ==
    [ timestamp |-> now, conflictType |-> conflictType, description |-> description,
      deviceIds |-> ids, resolved |-> FALSE, resolution |-> << >> ]

\* detectConflicts: the conflict log it leaves
conflictsAfterDetect(log, ms, now) ==
    IF Len(getOnlineMiniSplits(ms)) >= 2 /\ Len(uniqueModes(conflictingUnits(ms), ms)) > 1
    THEN addEvent(log,
                  ConflictEvent(now, "mode_mismatch", uniqueModes(conflictingUnits(ms), ms),
                                conflictingUnits(ms)),
                  conflictLimit)
    ELSE log

\* a resolveConflict that marks every entry up to conflictIndex
resolveConflictThrough(log, conflictIndex, resolution) ==
    [j \in 1..Len(log) |->
        IF j <= conflictIndex + 1
        THEN [log[j] EXCEPT !.resolved = TRUE, !.resolution = << resolution >>]
        ELSE log[j]]

\* resolveConflict(conflictIndex, resolution): the conflict log it leaves.
\* A negative index passes the test and the assignment to the missing entry
\* throws, the log being left as it was.
resolveConflict(log, conflictIndex, resolution) ==
    IF conflictIndex < Len(log) /\ conflictIndex >= 0
    THEN [log EXCEPT ![conflictIndex + 1].resolved = TRUE,
                     ![conflictIndex + 1].resolution = << resolution >>]
    ELSE log

\* how many conflict events the model lets the store record
MaxConflicts == 2

\* runCoordinationCycle's steps 2 to 4 as in Decide, with what detectConflicts
\* records in the store
DecideRecorded(p) ==
    /\ pc[p] = "weather"
    /\ Len(conflicts) < MaxConflicts
    /\ systemMode' = [systemMode EXCEPT ![p] =
          determineOptimalSystemMode(miniSplits, globalMode, globalMinTemp,
                                     globalMaxTemp, schedule, weather)]
    /\ cycleConflicts' = [cycleConflicts EXCEPT ![p] =
          detectConflictsAt(miniSplits, modeChangeHistory, clock)]
    /\ conflicts' = conflictsAfterDetect(conflicts, miniSplits, clock)
    /\ actions' = [actions EXCEPT ![p] =
          generateCoordinationActions(miniSplits, systemMode'[p], globalMinTemp,
                                      globalMaxTemp, schedule)]
    /\ clean' = [clean EXCEPT ![p] = clean[p] /\ authenticated]
    /\ pc' = [pc EXCEPT ![p] = ExecuteEntry(actions'[p])]
    /\ UNCHANGED << smVars, isRunning, coordinationTimer, kind, idx, issued, trace,
                    lastCycle, envVars, modeChangeHistory, response, clock,
                    lastFetchTime, cachedData, weatherResult >>

\* StateManager.resolveConflict(conflictIndex, resolution)
ResolveConflict(conflictIndex, resolution) ==
    /\ conflicts' = resolveConflict(conflicts, conflictIndex, resolution)
    /\ UNCHANGED << modeChangeHistory, nonLogVars >>

\* ------------------------------------ StateManager: the state file

\* JSON null where a number is expected
JsonNull == -2

\* JSON.stringify of a number, read back by JSON.parse: NaN is written as null
jsonNumber(n) == IF IsNaN(n) THEN JsonNull ELSE n

\* a unit's entry written and read back
jsonUnit(unit) ==
    [unit EXCEPT !.currentTemperature = jsonNumber(unit.currentTemperature),
                 !.targetTemperature = jsonNumber(unit.targetTemperature)]

\* a mode-change event written and read back: a key whose value is
\* undefined is not written and reads as undefined
jsonModeChange(event) ==
    [event EXCEPT !.timestamp = jsonNumber(event.timestamp),
                  !.outsideTemp = [i \in 1..Len(event.outsideTemp) |->
                                      jsonNumber(event.outsideTemp[i])]]

\* a conflict event written and read back
jsonConflict(event) == [event EXCEPT !.timestamp = jsonNumber(event.timestamp)]

\* the store as one value
CurrentStore ==
    [ globalMode |-> globalMode, globalMinTemp |-> globalMinTemp,
      globalMaxTemp |-> globalMaxTemp, miniSplits |-> miniSplits,
      modeChangeHistory |-> modeChangeHistory, conflicts |-> conflicts ]

\* initializeDefaultState
DefaultState ==
    [ globalMode |-> "off", globalMinTemp |-> DefaultMinTemp,
      globalMaxTemp |-> DefaultMaxTemp, miniSplits |-> << >>,
      modeChangeHistory |-> << >>, conflicts |-> << >> ]

\* saveState: the file it writes, JSON.stringify of the state with the unit
\* map turned into an object (Object.fromEntries)
saveState(st) ==
    [ kind |-> "object",
      data |-> [ globalMode |-> st.globalMode,
                 globalMinTemp |-> jsonNumber(st.globalMinTemp),
                 globalMaxTemp |-> jsonNumber(st.globalMaxTemp),
                 miniSplits |-> [d \in DOMAIN st.miniSplits |-> jsonUnit(st.miniSplits[d])],
                 modeChangeHistory |->
                    [i \in 1..Len(st.modeChangeHistory) |-> jsonModeChange(st.modeChangeHistory[i])],
                 conflicts |->
                    [i \in 1..Len(st.conflicts) |-> jsonConflict(st.conflicts[i])] ] ]

\* no state file; a file that JSON.parse rejects; a file that holds null, so
\* that reading data.miniSplits throws
NoStateFile == [kind |-> "absent", data |-> DefaultState]

UnparsableFile == [kind |-> "unparsable", data |-> DefaultState]

NullFile == [kind |-> "null", data |-> DefaultState]

\* loadState: the state it builds from the file, the unit map rebuilt from
\* the entries of the object (new Map(Object.entries(...)))
loadState(file) ==
    IF file.kind = "object"
    THEN [file.data EXCEPT !.miniSplits = [d \in DOMAIN file.data.miniSplits |->
                                              file.data.miniSplits[d]]]
    ELSE DefaultState

\* the process starts and the StateManager's constructor reads file
Restart(file) ==
    /\ globalMode' = loadState(file).globalMode
    /\ globalMinTemp' = loadState(file).globalMinTemp
    /\ globalMaxTemp' = loadState(file).globalMaxTemp
    /\ miniSplits' = loadState(file).miniSplits
    /\ modeChangeHistory' = loadState(file).modeChangeHistory
    /\ conflicts' = loadState(file).conflicts
    /\ UNCHANGED << coordinatorTemperatureSet, procVars, lastCycle, envVars, response,
                    clock, lastFetchTime, cachedData, weatherResult >>

\* saveState at shutdown, and the next start of the process
SaveAndRestart == Restart(saveState(CurrentStore))

\* --------------------------------------------------- WeatherService

\* config.cacheDurationMs, the default of the constructor: 15 minutes
cacheDurationMs == 900000

\* the temperature of the fallback data
FallbackTemperature == 70

\* what fetchWeatherFromAPI can do: throw, or return a temperature
FetchOutcomes ==
    {[ok |-> FALSE, temperature |-> 0]} \cup {[ok |-> TRUE, temperature |-> t] : t \in {60, 85}}

\* how much time passes between two calls: just under the TTL, or the TTL
TimeSteps == {cacheDurationMs - 1, cacheDurationMs}

\* the clock of the model stops here
MaxClock == 3 * cacheDurationMs

\* a cache test that still holds at the age of the TTL
UsesCacheInclusive(cached, now, last) ==
    ~cached.isNull /\ (now - last) <= cacheDurationMs

\* getWeatherData's test: this.cachedData && (now - this.lastFetchTime) < cacheDurationMs
UsesCache(cached, now, last) ==
    ~cached.isNull /\ (now - last) < cacheDurationMs

\* isCacheValid()
isCacheValid == ~cachedData.isNull /\ (clock - lastFetchTime) < cacheDurationMs

\* what is left unchanged by the WeatherService
nonWeatherVars ==
    << smVars, procVars, lastCycle, envVars, modeChangeHistory, conflicts, response >>

\* time passes
Tick(dt) ==
    /\ clock + dt <= MaxClock
    /\ clock' = clock + dt
    /\ UNCHANGED << lastFetchTime, cachedData, weatherResult, nonWeatherVars >>

\* getWeatherData(), the fetch ending with outcome o when one is made
GetWeatherData(o) ==
    /\ IF UsesCache(cachedData, clock, lastFetchTime)
       THEN /\ weatherResult' = [returned |-> TRUE, temperature |-> cachedData.temperature,
                                 log |-> "Using cached weather data"]
            /\ UNCHANGED << cachedData, lastFetchTime >>
       ELSE IF o.ok
       THEN /\ cachedData' = [isNull |-> FALSE, temperature |-> o.temperature]
            /\ lastFetchTime' = clock
            /\ weatherResult' = [returned |-> TRUE, temperature |-> o.temperature,
                                 log |-> "Weather updated"]
       ELSE IF ~cachedData.isNull
       THEN /\ weatherResult' = [returned |-> TRUE, temperature |-> cachedData.temperature,
                                 log |-> "Returning expired cached weather data due to API error"]
            /\ UNCHANGED << cachedData, lastFetchTime >>
       ELSE /\ weatherResult' = [returned |-> TRUE, temperature |-> FallbackTemperature,
                                 log |-> "Using fallback temperature data"]
            /\ UNCHANGED << cachedData, lastFetchTime >>
    /\ UNCHANGED << clock, nonWeatherVars >>

\* ------------------------------------------------------ specifications

\* a handler in flight takes its next step
Step ==
    \/ \E p \in Procs : SyncUnit(p)
    \/ \E p \in Procs : Decide(p)
    \/ \E p \in Procs : ExecuteAction(p)
    \/ \E p \in Procs : Commit(p)
    \/ \E p \in Procs : Rejected(p)
    \/ ReplySent

\* the range route of the coordinator API reads numbers from a JSON body, the
\* admin form's route reads them with parseInt
JsonRangeInputs == {r \in RangeInputs : ~IsNaN(r[1]) /\ ~IsNaN(r[2])}

\* bodies of POST /temperature-range: two numbers, or a field that is a
\* string or is missing
RangeBodies ==
    {<< JsonNumber(r[1]), JsonNumber(r[2]) >> : r \in JsonRangeInputs}
    \cup {<< JsonString, JsonNumber(72) >>, << JsonNumber(68), JsonMissing >>,
          << JsonNumber(95), JsonNumber(40) >>}

\* bodies of POST /mode: a mode, another string, or no mode
ModeBodies == Modes \cup {"invalid_mode", ""}

\* a request handler is entered
Call ==
    \/ RunCycleRequest
    \/ \E r \in RangeInputs : SetGlobalTemperatureRange("api", r[1], r[2])
    \/ \E b \in RangeBodies : PostTemperatureRange(b[1], b[2])
    \/ \E m \in ModeBodies : PostMode(m)
    \/ \E m \in Modes : SetGlobalMode("api", m)
    \/ EmergencyOff("api")
    \/ \E d \in Units : ClearManualOverride("api", d)
    \/ ClearAllManualOverrides("api")

Environment ==
    \/ AuthChange
    \/ \E r \in UserSetpoints : UserSetsTemperature("u1", r)

\* The program from construction, its request handlers one at a time: a
\* handler is entered, and the environment changes, only while no handler is
\* in flight.  A unit that is unplugged stays so.
Init ==
    /\ InitProgram
    /\ authenticated \in BOOLEAN
    /\ \E off \in {{}, {"u1"}} :
          dev = [d \in Units |-> [InitialDevice EXCEPT !.reachable = (d \notin off)]]
    /\ weather \in WeatherTemps
    /\ schedule \in Schedules

Next ==
    \/ AllIdle /\ Call
    \/ AllIdle /\ Environment
    \/ Step

Spec == Init /\ [][Next]_vars

\* The decision step of a cycle applied to every stored state drawn from small
\* sets: the state of a cycle whose sync and weather fetch returned.
ValidRanges == {<<68, 72>>, <<69, 73>>}

StoredRanges == ValidRanges \cup {<<NaN, NaN>>}

StoredTargets == {68, 70, 73}

StoredUnits ==
    [ currentTemperature : {DefaultUnitTemp}, targetTemperature : StoredTargets,
      mode : Modes, isOnline : BOOLEAN, manualTemperatureOverride : BOOLEAN ]

InitDecide ==
    /\ globalMode \in Modes
    /\ \E r \in StoredRanges : globalMinTemp = r[1] /\ globalMaxTemp = r[2]
    /\ miniSplits \in [Units -> StoredUnits]
    /\ coordinatorTemperatureSet = [d \in Units |-> 0]
    /\ isRunning = FALSE
    /\ coordinationTimer = FALSE
    /\ pc = [p \in Procs |-> IF p = "api" THEN "weather" ELSE "idle"]
    /\ kind = [p \in Procs |-> IF p = "api" THEN "cycle" ELSE "none"]
    /\ idx = [p \in Procs |-> 1]
    /\ systemMode = [p \in Procs |-> "off"]
    /\ actions = [p \in Procs |-> << >>]
    /\ issued = [p \in Procs |-> << >>]
    /\ clean = [p \in Procs |-> p = "api"]
    /\ trace = [p \in Procs |-> << >>]
    /\ cycleConflicts = [p \in Procs |-> << >>]
    /\ lastCycle = "none"
    /\ InitServices
    /\ authenticated = TRUE
    /\ dev = [d \in Units |-> InitialDevice]
    /\ weather \in WeatherTemps
    /\ schedule \in Schedules

NextDecide == Decide("api")

SpecDecide == InitDecide /\ [][NextDecide]_vars

\* The coordinator's lifecycle with its handlers interleaved at their awaits:
\* start, stop, the interval's callback and a run-cycle request.
InitConc ==
    /\ InitProgram
    /\ authenticated = TRUE
    /\ dev = [d \in Units |-> InitialDevice]
    /\ weather = 60
    /\ schedule = NoSchedule

NextConc ==
    \/ StartCall
    \/ StartSync
    \/ StopCall
    \/ StopReturn
    \/ TimerTick
    \/ RunCycleRequest
    \/ \E p \in Procs : SyncUnit(p)
    \/ \E p \in Procs : Decide(p)
    \/ \E p \in Procs : ExecuteAction(p)
    \/ \E p \in Procs : Commit(p)

SpecConc == InitConc /\ [][NextConc]_vars

\* The started coordinator under faults: a unit can drop off the network or
\* come back at any moment, also between two steps of a handler, and a cycle
\* can raise an exception.  Handlers run one at a time.
FaultWeather == {60, 85}

InitFault ==
    /\ InitProgram
    /\ authenticated = TRUE
    /\ dev = [d \in Units |-> InitialDevice]
    /\ weather \in FaultWeather
    /\ schedule = NoSchedule

NextFault ==
    \/ AllIdle /\ StartCall
    \/ StartSync
    \/ AllIdle /\ TimerTick
    \/ AllIdle /\ RunCycleRequest
    \/ \E d \in Units : ReachabilityChange(d)
    \/ \E p \in Procs : SyncUnit(p)
    \/ \E p \in Procs : CycleThrows(p)
    \/ \E p \in Procs : CaughtReturn(p)
    \/ \E p \in Procs : Decide(p)
    \/ \E p \in Procs : ExecuteAction(p)
    \/ \E p \in Procs : Commit(p)

SpecFault == InitFault /\ [][NextFault]_vars

\* The logs of the StateManager alone: events are added to logs that loadState
\* read from a state file the program saved, two entries short of their limits.
InitLogs ==
    /\ globalMode = "off"
    /\ globalMinTemp = DefaultMinTemp
    /\ globalMaxTemp = DefaultMaxTemp
    /\ miniSplits = [d \in Units |-> InitialUnit]
    /\ coordinatorTemperatureSet = [d \in Units |-> 0]
    /\ isRunning = FALSE
    /\ coordinationTimer = FALSE
    /\ pc = [p \in Procs |-> "idle"]
    /\ IdleLocals
    /\ lastCycle = "none"
    /\ authenticated = TRUE
    /\ dev = [d \in Units |-> InitialDevice]
    /\ weather = 60
    /\ schedule = NoSchedule
    /\ modeChangeHistory = SavedLog(historyLimit - 2)
    /\ conflicts = SavedLog(conflictLimit - 2)
    /\ response = NoResponse
    /\ clock = 0
    /\ lastFetchTime = 0
    /\ cachedData = NoData
    /\ weatherResult = NoWeatherResult

NextLogs ==
    \/ AddModeChangeEvent
    \/ AddConflictEvent

SpecLogs == InitLogs /\ [][NextLogs]_vars

\* The WeatherService alone: calls of getWeatherData, whose fetch succeeds or
\* fails, as time passes.
InitWeather ==
    /\ InitProgram
    /\ authenticated = TRUE
    /\ dev = [d \in Units |-> InitialDevice]
    /\ weather = 60
    /\ schedule = NoSchedule

NextWeather ==
    \/ \E dt \in TimeSteps : Tick(dt)
    \/ \E o \in FetchOutcomes : GetWeatherData(o)

SpecWeather == InitWeather /\ [][NextWeather]_vars

\* The StateManager alone, from its construction with no state file
\* (initializeDefaultState): calls of updateGlobalMode and updateMiniSplitState.
InitStore ==
    /\ globalMode = "off"
    /\ globalMinTemp = DefaultMinTemp
    /\ globalMaxTemp = DefaultMaxTemp
    /\ miniSplits = << >>
    /\ coordinatorTemperatureSet = [d \in Units |-> 0]
    /\ isRunning = FALSE
    /\ coordinationTimer = FALSE
    /\ pc = [p \in Procs |-> "idle"]
    /\ IdleLocals
    /\ lastCycle = "none"
    /\ authenticated = TRUE
    /\ dev = [d \in Units |-> InitialDevice]
    /\ weather = 60
    /\ schedule = NoSchedule
    /\ InitServices

NextStore ==
    \/ \E m \in Modes, c \in GlobalModeCalls : UpdateGlobalMode(m, c.reason, c.outsideTemp)
    \/ \E d \in Units, u \in StoreUpdates : UpdateMiniSplitState(d, u)

SpecStore == InitStore /\ [][NextStore]_vars

\* Conflict detection: one cycle at its decision, over the stores a run can
\* have left (units online in any mode at 70 F or 85 F, three or four mode
\* changes recorded an hour ago or a millisecond less, a conflict recorded
\* by an earlier cycle or none), and calls of resolveConflict.
ConflictUnits ==
    [ currentTemperature : {DefaultUnitTemp, 85}, targetTemperature : {DefaultUnitTemp},
      mode : Modes, isOnline : BOOLEAN, manualTemperatureOverride : {FALSE} ]

\* the time of the cycle
CycleTime == 2 * 60 * 60 * 1000

\* n changes of a unit's mode recorded at time t
ChangeLog(n, t) ==
    [i \in 1..n |-> ModeChangeEvent(t, << "u1" >>, "off", "heat", "user_request", << >>)]

ChangeLogs ==
    { ChangeLog(n, t) : n \in {3, 4},
                        t \in {CycleTime - (60 * 60 * 1000), CycleTime - (60 * 60 * 1000) + 1} }

ConflictLogs ==
    { << >>,
      << ConflictEvent(0, "mode_mismatch", << "heat", "cool" >>, << "u1", "u2" >>) >> }

InitConflicts ==
    /\ globalMode \in Modes
    /\ globalMinTemp = DefaultMinTemp
    /\ globalMaxTemp = DefaultMaxTemp
    /\ miniSplits \in [Units -> ConflictUnits]
    /\ coordinatorTemperatureSet = [d \in Units |-> 0]
    /\ isRunning = FALSE
    /\ coordinationTimer = FALSE
    /\ pc = [p \in Procs |-> IF p = "api" THEN "weather" ELSE "idle"]
    /\ kind = [p \in Procs |-> IF p = "api" THEN "cycle" ELSE "none"]
    /\ idx = [p \in Procs |-> 1]
    /\ systemMode = [p \in Procs |-> "off"]
    /\ actions = [p \in Procs |-> << >>]
    /\ issued = [p \in Procs |-> << >>]
    /\ clean = [p \in Procs |-> p = "api"]
    /\ trace = [p \in Procs |-> << >>]
    /\ cycleConflicts = [p \in Procs |-> << >>]
    /\ lastCycle = "none"
    /\ authenticated = TRUE
    /\ dev = [d \in Units |-> InitialDevice]
    /\ weather = 60
    /\ schedule = NoSchedule
    /\ modeChangeHistory \in ChangeLogs
    /\ conflicts \in ConflictLogs
    /\ response = NoResponse
    /\ clock = CycleTime
    /\ lastFetchTime = 0
    /\ cachedData = NoData
    /\ weatherResult = NoWeatherResult

\* the conflictIndex and resolution arguments of resolveConflict
ConflictIndexes == -1 .. MaxConflicts

Resolutions == {"fixed"}

NextConflicts ==
    \/ DecideRecorded("api")
    \/ \E i \in ConflictIndexes, r \in Resolutions : ResolveConflict(i, r)

SpecConflicts == InitConflicts /\ [][NextConflicts]_vars

\* emergencyOff against a cycle in flight.  The store was loaded from a state
\* file left by a run that was cooling, the units are still in cool, and it
\* is 60 F outside: start() runs its first cycle, which decides heat, and
\* emergencyOff is called while that cycle is between two of its awaits.  In
\* this specification nothing but emergencyOff turns a unit or the global
\* mode off.
InitEmergency ==
    /\ globalMode = "cool"
    /\ globalMinTemp = DefaultMinTemp
    /\ globalMaxTemp = DefaultMaxTemp
    /\ miniSplits = [d \in Units |-> [InitialUnit EXCEPT !.mode = "cool", !.isOnline = TRUE]]
    /\ coordinatorTemperatureSet = [d \in Units |-> 0]
    /\ isRunning = FALSE
    /\ coordinationTimer = FALSE
    /\ pc = [p \in Procs |-> "idle"]
    /\ IdleLocals
    /\ lastCycle = "none"
    /\ InitServices
    /\ authenticated = TRUE
    /\ dev = [d \in Units |-> [InitialDevice EXCEPT !.mode = "cool"]]
    /\ weather = 60
    /\ schedule = NoSchedule

\* start()'s call of runCoordinationCycle has not returned
FirstCycleInFlight == pc["start"] \in {"sync", "weather", "exec", "commit"}

NextEmergency ==
    \/ StartCall
    \/ StartSync
    \/ FirstCycleInFlight /\ EmergencyOff("api")
    \/ \E p \in Procs : SyncUnit(p)
    \/ \E p \in Procs : Decide(p)
    \/ \E p \in Procs : ExecuteAction(p)
    \/ \E p \in Procs : Commit(p)

SpecEmergency == InitEmergency /\ [][NextEmergency]_vars

\* The modes the store holds: the admin route's mode request, whose body
\* names a mode of the coordinator or another word, units set to a mode by
\* their remote control, and cycles.  Handlers run one at a time.
AdminModeBodies == {"heat", "off", "auto"}

RemoteModes == {"cool", "dry"}

ModeWeather == {60, 68}

InitModes ==
    /\ InitProgram
    /\ authenticated = TRUE
    /\ dev = [d \in Units |-> InitialDevice]
    /\ weather \in ModeWeather
    /\ schedule = NoSchedule

NextModes ==
    \/ AllIdle /\ RunCycleRequest
    \/ AllIdle /\ \E m \in AdminModeBodies : AdminPostMode(m)
    \/ AllIdle /\ \E d \in Units, m \in RemoteModes : UserSetsMode(d, m)
    \/ \E p \in Procs : SyncUnit(p)
    \/ \E p \in Procs : Decide(p)
    \/ \E p \in Procs : ExecuteAction(p)
    \/ \E p \in Procs : Commit(p)

SpecModes == InitModes /\ [][NextModes]_vars

\* The state file: a store a run can have left is saved and read back by the
\* next process, or the next process finds no file or one it cannot read.
SavedHistories ==
    { << >>,
      << ModeChangeEvent(0, << >>, "off", "heat", "coordinator_logic", << 60 >>),
         ModeChangeEvent(1, << "u1" >>, "off", "heat", "user_request", << >>) >> }

SavedUnitMaps == {<< >>} \cup [Units -> ConflictUnits]

UnreadableFiles == {NoStateFile, UnparsableFile, NullFile}

InitPersist ==
    /\ globalMode \in Modes
    /\ \E r \in StoredRanges : globalMinTemp = r[1] /\ globalMaxTemp = r[2]
    /\ miniSplits \in SavedUnitMaps
    /\ coordinatorTemperatureSet = [d \in Units |-> 0]
    /\ isRunning = FALSE
    /\ coordinationTimer = FALSE
    /\ pc = [p \in Procs |-> "idle"]
    /\ IdleLocals
    /\ lastCycle = "none"
    /\ authenticated = TRUE
    /\ dev = [d \in Units |-> InitialDevice]
    /\ weather = 60
    /\ schedule = NoSchedule
    /\ modeChangeHistory \in SavedHistories
    /\ conflicts \in ConflictLogs
    /\ response = NoResponse
    /\ clock = 0
    /\ lastFetchTime = 0
    /\ cachedData = NoData
    /\ weatherResult = NoWeatherResult

NextPersist ==
    \/ SaveAndRestart
    \/ \E f \in UnreadableFiles : Restart(f)

SpecPersist == InitPersist /\ [][NextPersist]_vars

\* ------------------------------------------------------------ properties

\* handler p is inside runCoordinationCycle
InCycle(p) == kind[p] \in CycleKinds /\ pc[p] \in {"sync", "weather", "exec", "commit"}

\* C1: at most one coordination cycle is executing at any time: a cycle that is
\* requested while another is in flight never runs interleaved with it.
C1_AtMostOneCycle == Cardinality({p \in Procs : InCycle(p)}) <= 1

\* C10: once stop() has returned the coordinator is quiet: no cycle begun by
\* start() or by the timer is still executing, and the timer is not armed.
C10_StoppedIsQuiet ==
    ~isRunning => /\ \A p \in {"start", "timer"} : ~InCycle(p)
                  /\ ~coordinationTimer

\* a call of setGlobalTemperatureRange or setGlobalTemperatureRangeImmediate
\* with the range r that does not end in an error
AcceptedRangeCall(r) ==
    /\ \/ SetGlobalTemperatureRange("api", r[1], r[2])
       \/ SetGlobalTemperatureRangeImmediate("api", r[1], r[2])
    /\ pc'["api"] # "rejected"

\* minTemp < maxTemp and both within [50, 90]
RangeIsValid(minTemp, maxTemp) ==
    /\ NumLT(minTemp, maxTemp)
    /\ NumGE(minTemp, RangeFloor)
    /\ NumLE(maxTemp, RangeCeiling)

\* C6: every accepted call to set the global range has min < max with both
\* bounds in [50, 90].
C6_AcceptedCallsAreValid ==
    [][\A r \in RangeInputs : AcceptedRangeCall(r) => RangeIsValid(r[1], r[2])]_vars

\* C7: in every reachable state globalMinTemp < globalMaxTemp and both lie
\* within [50, 90].
C7_RangeInvariant == RangeIsValid(globalMinTemp, globalMaxTemp)

\* ------------------------------------- properties of the decision step

\* handler p has decided and has not yet issued a command: the stored state is
\* the one its decision read
Decided(p) ==
    /\ kind[p] \in CycleKinds
    /\ pc[p] \in {"exec", "commit"}
    /\ issued[p] = << >>

\* the action list holds a setTemperature for unit d
HasSetTemperature(acts, d) ==
    \E i \in 1..Len(acts) : acts[i].deviceId = d /\ acts[i].action = "setTemperature"

\* the action list holds setTemperature(t) for unit d
EmitsSetTemperature(acts, d, t) ==
    \E i \in 1..Len(acts) : /\ acts[i].deviceId = d
                            /\ acts[i].action = "setTemperature"
                            /\ acts[i].temperature = t

\* the setpoints of a cycle: the active schedule's, else the global range
ScheduledMin == IF schedule.active THEN schedule.targetMinTemp ELSE globalMinTemp

ScheduledMax == IF schedule.active THEN schedule.targetMaxTemp ELSE globalMaxTemp

\* the setpoint of target mode m, for a unit whose target is t
SetpointOf(m, t) ==
    IF m = "heat" THEN ScheduledMin ELSE IF m = "cool" THEN ScheduledMax ELSE t

\* |a - b| >= 1 on numbers
AtLeastOneApart(a, b) ==
    ~IsNaN(a) /\ ~IsNaN(b) /\ (a - b >= 1 \/ b - a >= 1)

\* unit d's target lies within [globalMinTemp, globalMaxTemp]
TargetInGlobalRange(d) ==
    /\ NumGE(miniSplits[d].targetTemperature, globalMinTemp)
    /\ NumLE(miniSplits[d].targetTemperature, globalMaxTemp)

SomeUnitOnline == \E d \in Units : miniSplits[d].isOnline

\* C3: with an online unit the target mode is heat when the outdoor
\* temperature is below the heating setpoint, cool when it is above the cooling
\* setpoint, and the current global mode otherwise; with no online unit it is
\* off.
C3_ModeDetermination ==
    \A p \in Procs : Decided(p) =>
        /\ ~SomeUnitOnline => systemMode[p] = "off"
        /\ SomeUnitOnline /\ NumLT(weather, ScheduledMin) => systemMode[p] = "heat"
        /\ SomeUnitOnline /\ ~NumLT(weather, ScheduledMin) /\ NumGT(weather, ScheduledMax)
              => systemMode[p] = "cool"
        /\ SomeUnitOnline /\ ~NumLT(weather, ScheduledMin) /\ ~NumGT(weather, ScheduledMax)
              => systemMode[p] = globalMode

\* C3 witness: a schedule is active, the outdoor temperature equals the global
\* minimum but is below the schedule's, and the cycle decided heat.
C3_Witness ==
    /\ Decided("api")
    /\ SomeUnitOnline
    /\ schedule.active
    /\ weather = globalMinTemp
    /\ globalMode = "cool"
    /\ systemMode["api"] = "heat"

\* C9: for an online unit whose override is not respected, the cycle emits
\* SetTemperature(desiredTemp) exactly when desiredTemp and the unit's target
\* are at least one degree apart, desiredTemp being the setpoint of the target
\* mode (the unit's own target in off mode, hence no action then).
C9_Deadband ==
    \A p \in Procs, d \in Units :
        Decided(p) /\ miniSplits[d].isOnline
                   /\ ~(miniSplits[d].manualTemperatureOverride /\ TargetInGlobalRange(d))
        => LET target  == miniSplits[d].targetTemperature
               desired == SetpointOf(systemMode[p], target)
           IN /\ EmitsSetTemperature(actions[p], d, desired)
                    <=> AtLeastOneApart(desired, target)
              /\ HasSetTemperature(actions[p], d)
                    => EmitsSetTemperature(actions[p], d, desired)
              /\ systemMode[p] = "off" => ~HasSetTemperature(actions[p], d)

\* C9 witness: a unit one degree above the cooling setpoint is sent to it.
C9_Witness ==
    /\ Decided("api")
    /\ systemMode["api"] = "cool"
    /\ ~schedule.active
    /\ miniSplits["u1"].isOnline
    /\ ~miniSplits["u1"].manualTemperatureOverride
    /\ miniSplits["u1"].targetTemperature = globalMaxTemp + 1
    /\ EmitsSetTemperature(actions["api"], "u1", globalMaxTemp)

\* C2 as stated: an online unit with a manual target gets no SetTemperature
\* when the target is within the global range and a correcting SetTemperature
\* when it is outside.
C2_OverrideRespectAsStated ==
    \A p \in Procs, d \in Units :
        Decided(p) /\ miniSplits[d].isOnline /\ miniSplits[d].manualTemperatureOverride
        => IF TargetInGlobalRange(d)
           THEN ~HasSetTemperature(actions[p], d)
           ELSE HasSetTemperature(actions[p], d)

\* C2: an online unit with a manual target gets no SetTemperature when the
\* target is within the global range; when it is outside, it gets
\* SetTemperature(setpoint of the target mode) if the target mode is heat or
\* cool and that setpoint is at least one degree from the target, and no
\* SetTemperature otherwise.
C2_OverrideRespect ==
    \A p \in Procs, d \in Units :
        Decided(p) /\ miniSplits[d].isOnline /\ miniSplits[d].manualTemperatureOverride
        => LET target   == miniSplits[d].targetTemperature
               setpoint == SetpointOf(systemMode[p], target)
           IN IF TargetInGlobalRange(d)
              THEN ~HasSetTemperature(actions[p], d)
              ELSE IF systemMode[p] \in {"heat", "cool"} /\ AtLeastOneApart(setpoint, target)
                   THEN EmitsSetTemperature(actions[p], d, setpoint)
                   ELSE ~HasSetTemperature(actions[p], d)

\* C2 witness: a manual target above the global maximum is corrected to the
\* cooling setpoint.
C2_Witness ==
    /\ Decided("api")
    /\ systemMode["api"] = "cool"
    /\ miniSplits["u1"].isOnline
    /\ miniSplits["u1"].manualTemperatureOverride
    /\ NumGT(miniSplits["u1"].targetTemperature, globalMaxTemp)
    /\ EmitsSetTemperature(actions["api"], "u1", ScheduledMax)

\* ----------------------------------------- properties of whole handlers

\* the list s starts with the list t
IsPrefix(t, s) == Len(t) <= Len(s) /\ \A i \in 1..Len(t) : t[i] = s[i]

\* in the list acts, unit d's setMode comes before its setTemperature
ModeBeforeTemperature(acts, d) ==
    \A i, j \in 1..Len(acts) :
        /\ acts[i].deviceId = d /\ acts[i].action = "setMode"
        /\ acts[j].deviceId = d /\ acts[j].action = "setTemperature"
        => i < j

\* C8: the commands issued so far are the generated list's first entries in
\* the list's order; a unit's SetMode precedes its SetTemperature; and when a
\* cycle's SetTemperature has reached a unit, the unit is in the target mode.
C8_CommandOrder ==
    \A p \in Procs :
        /\ IsPrefix(issued[p], actions[p])
        /\ pc[p] = "commit" /\ authenticated => issued[p] = actions[p]
        /\ \A d \in Units : ModeBeforeTemperature(actions[p], d)
        /\ \A d \in Units :
              /\ InCycle(p)
              /\ HasSetTemperature(issued[p], d)
              /\ DeviceCallSucceeds(d)
              => dev[d].mode = systemMode[p]

\* C8 witness: two units, both off, range 68-72, outdoor 60: each has received
\* SetMode(heat) then SetTemperature(68).
C8_Witness ==
    /\ pc["api"] = "commit"
    /\ InCycle("api")
    /\ weather = 60
    /\ issued["api"] = << SetModeAction("u1", "heat"), SetTemperatureAction("u1", 68),
                          SetModeAction("u2", "heat"), SetTemperatureAction("u2", 68) >>
    /\ \A d \in Units : dev[d].mode = "heat" /\ dev[d].setpoint = [value |-> 68, unit |-> "F"]

\* SetMode(off) for every configured unit, in the units' order
AllUnitsOff == [i \in 1..Len(deviceIds) |-> SetModeAction(deviceIds[i], "off")]

\* C5 as stated: when emergencyOff returns it has attempted SetMode(off) on
\* every configured unit and the global mode is off.
C5_EmergencyOffAsStated ==
    [][\A p \in Procs : kind[p] = "emergency" /\ Commit(p)
          => issued[p] = AllUnitsOff /\ globalMode' = "off"]_vars

\* C5: when emergencyOff returns the global mode is off, and if the device
\* collaborator is authenticated it has attempted SetMode(off) on every
\* configured unit, online or not, overridden or not, whichever attempts
\* failed; if it is not authenticated no command was attempted.
C5_EmergencyOff ==
    [][\A p \in Procs : kind[p] = "emergency" /\ Commit(p)
          => /\ globalMode' = "off"
             /\ authenticated => issued[p] = AllUnitsOff
             /\ ~authenticated => issued[p] = << >>]_vars

\* C5 witness: emergencyOff is about to return; the command to the first unit,
\* which is unplugged and was never synced, failed, and the second unit, which
\* was heating, has been switched off after it.
C5_Witness ==
    /\ kind["api"] = "emergency"
    /\ pc["api"] = "commit"
    /\ issued["api"] = AllUnitsOff
    /\ ~dev["u1"].reachable
    /\ ~miniSplits["u1"].isOnline
    /\ miniSplits["u2"].mode = "heat"
    /\ dev["u2"].mode = "off"
    /\ globalMode = "heat"

\* a cycle has decided
CycleDecided(p) == InCycle(p) /\ pc[p] \in {"exec", "commit"}

SetModePositions(acts, d) ==
    {i \in 1..Len(acts) : acts[i].deviceId = d /\ acts[i].action = "setMode"}

\* the positions of the list acts that hold any action for unit d
PositionsOf(acts, d) == {i \in 1..Len(acts) : acts[i].deviceId = d}

\* C20: action generation emits exactly one SetMode(targetMode) for each
\* online unit in another mode (target mode off included), none for an online
\* unit already in the target mode, and no action at all for an offline unit.
C20_ModeActions ==
    \A p \in Procs, d \in Units : Decided(p) =>
        /\ miniSplits[d].isOnline /\ miniSplits[d].mode # systemMode[p]
              => /\ Cardinality(SetModePositions(actions[p], d)) = 1
                 /\ \A i \in SetModePositions(actions[p], d) :
                       actions[p][i].mode = systemMode[p]
        /\ miniSplits[d].isOnline /\ miniSplits[d].mode = systemMode[p]
              => SetModePositions(actions[p], d) = {}
        /\ ~miniSplits[d].isOnline => PositionsOf(actions[p], d) = {}

\* C20 witness: the target mode is off; the online unit that is heating gets
\* SetMode(off), the offline unit that is heating gets nothing.
C20_Witness ==
    /\ Decided("api")
    /\ systemMode["api"] = "off"
    /\ miniSplits["u1"].isOnline /\ miniSplits["u1"].mode = "heat"
    /\ ~miniSplits["u2"].isOnline /\ miniSplits["u2"].mode = "heat"
    /\ actions["api"] = << SetModeAction("u1", "off") >>

\* ------------------------------------------------------------------
\* the device commands among the calls of a trace
CommandsOf(t) == SelectSeq(t, LAMBDA c : c.call # "getStatus")

\* the status fetches among the calls of a trace
FetchesOf(t) == SelectSeq(t, LAMBDA c : c.call = "getStatus")

\* the effect of a succeeded command is in place
EffectInPlace(a) ==
    IF a.action = "setMode"
    THEN dev[a.deviceId].mode = a.mode
    ELSE /\ dev[a.deviceId].setpoint = [value |-> a.temperature, unit |-> "F"]
         /\ miniSplits[a.deviceId].targetTemperature = a.temperature
         /\ coordinatorTemperatureSet[a.deviceId] = a.temperature

\* C15: best-effort execution.  When the execution loop has ended, every
\* action of the list has been sent to its device, in the order of the list,
\* whichever of them failed, and the effect of every command that succeeded
\* is still in place (on the device, in the unit's stored state and in the
\* record of coordinator writes).
C15_BestEffort ==
    \A p \in Procs : pc[p] = "commit" /\ authenticated =>
        LET cmds == CommandsOf(trace[p])
        IN /\ Len(cmds) = Len(actions[p])
           /\ \A i \in 1..Len(cmds) :
                 /\ cmds[i].call = actions[p][i].action
                 /\ cmds[i].deviceId = actions[p][i].deviceId
                 /\ cmds[i].ok => EffectInPlace(actions[p][i])

\* a command failed, an earlier one had succeeded and a later one succeeded
C15_Witness ==
    \E p \in Procs : pc[p] = "commit" /\
        LET cmds == CommandsOf(trace[p])
        IN \E i, j, k \in 1..Len(cmds) :
              i < j /\ j < k /\ cmds[i].ok /\ ~cmds[j].ok /\ cmds[k].ok

\* ------------------------------------------------------------------
\* the status fetches of the sync pass that handler p made last
LastPass(p) ==
    LET f == FetchesOf(trace[p])
    IN SubSeq(f, Len(f) - Len(deviceIds) + 1, Len(f))

\* handler p is in a cycle whose sync pass has ended
Synced(p) == pc[p] \in {"weather", "exec", "commit"} /\ kind[p] \in CycleKinds

\* the sync pass of the cycle of p fetched every configured unit, in order,
\* and left each unit online exactly when its fetch returned
PassComplete(p) ==
    /\ Len(FetchesOf(trace[p])) >= Len(deviceIds)
    /\ \A i \in 1..Len(deviceIds) :
          /\ LastPass(p)[i].deviceId = deviceIds[i]
          /\ miniSplits[deviceIds[i]].isOnline = LastPass(p)[i].ok

\* the cycle of p can take its next step
CycleGoesOn(p) ==
    /\ pc[p] = "weather" => ENABLED Decide(p)
    /\ pc[p] = "exec" => ENABLED ExecuteAction(p)
    /\ pc[p] = "commit" => ENABLED Commit(p)

\* one iteration of the sync loop whose fetch fails marks that unit offline
\* and changes nothing else of it, touches no other unit, and goes on to
\* the next unit or to the weather fetch
FailedFetchStep(p) ==
    LET d == deviceIds[idx[p]]
    IN SyncUnit(p) =>
          /\ ~DeviceCallSucceeds(d) =>
                miniSplits' = [miniSplits EXCEPT ![d].isOnline = FALSE]
          /\ \A u \in Units \ {d} : miniSplits'[u] = miniSplits[u]
          /\ pc'[p] = pc[p] \/ pc'[p] \in {"sync", "weather"}

CommandFailed(p) ==
    \E i \in 1..Len(CommandsOf(trace[p])) : ~CommandsOf(trace[p])[i].ok

\* the conflict strings that describe the units' stored states
StateConflicts ==
    {"Mode conflict detected", "Large temperature variation detected",
     "Rapid mode switching detected"}

\* result r of a cycle with action list acts tells of a failure: it is the
\* error result, or its reasoning counts fewer adjustments than the list
\* holds, or its conflicts hold an entry that is not about the units' states
TellsOfFailure(r, acts) ==
    \/ ~r.success
    \/ r.reasoning.error
    \/ r.reasoning.adjustments # Len(acts)
    \/ \E i \in 1..Len(r.conflicts) : r.conflicts[i] \notin StateConflicts

\* C16: when a device command failed during a cycle, the cycle reaches its
\* return without an exception and the result it returns tells of the
\* failure, in its conflicts or in its reasoning.
C16_FailureReflected ==
    \A p \in Procs : pc[p] = "commit" /\ kind[p] \in CycleKinds /\ CommandFailed(p) =>
        TellsOfFailure(CycleResult(p), actions[p])

\* ------------------------------------------------------------------
\* the result the catch of runCoordinationCycle returns
FailureResult(r) ==
    /\ ~r.success
    /\ r.actions = << >>
    /\ r.systemMode = "off"
    /\ r.reasoning.error

\* the return from the catch ends the handler normally; the interval stays
\* armed (start() arms it after its first cycle, failed or not), and with it
\* armed and no handler in flight the next tick can begin a cycle
ReturnsNormally(p) ==
    CaughtReturn(p) =>
        /\ pc'[p] = "idle"
        /\ coordinationTimer' = (coordinationTimer \/ kind[p] = "start")
        /\ p \in {"start", "timer"} => coordinationTimer' /\ AllIdle'

\* C12: an exception raised inside a coordination cycle is caught at the
\* cycle boundary.  The cycle returns a result with success = false, an empty
\* action list and the error in its reasoning; the handler ends normally;
\* and the interval is still armed, so that the next tick runs a cycle.
C12_CycleBoundary ==
    /\ [](\A p \in Procs : pc[p] = "caught" =>
              FailureResult(CycleResult(p)) /\ ENABLED CaughtReturn(p))
    /\ [](coordinationTimer /\ AllIdle => ENABLED TimerTick)
    /\ [][\A p \in Procs : ReturnsNormally(p)]_vars

\* a cycle begun by the interval's callback raised an exception
C12_Witness == pc["timer"] = "caught" /\ coordinationTimer

\* ------------------------------------------------------------------
\* the step that sends SetTemperature(u, v): on success the write is recorded
\* and the unit's stored state has target v, manual flag false; on failure
\* neither the stored states nor the record change
SetTemperatureStep(p) ==
    LET a == actions[p][idx[p]]
        u == a.deviceId
        v == a.temperature
    IN ExecuteAction(p) /\ a.action = "setTemperature" =>
          IF DeviceCallSucceeds(u)
          THEN /\ coordinatorTemperatureSet'[u] = v
               /\ miniSplits'[u].targetTemperature = v
               /\ ~miniSplits'[u].manualTemperatureOverride
               /\ dev'[u].setpoint.value = v
          ELSE UNCHANGED << miniSplits, coordinatorTemperatureSet, dev >>

\* the sync of a unit whose device reports the coordinator's last write
SyncAfterWrite(p) ==
    LET u == deviceIds[idx[p]]
    IN /\ SyncUnit(p)
       /\ DeviceCallSucceeds(u)
       /\ coordinatorTemperatureSet[u] # 0
       /\ NormalizeReading(dev[u].setpoint) = coordinatorTemperatureSet[u]
       => ~shouldRespectManualOverride(miniSplits'[u], globalMinTemp, globalMaxTemp)

\* C19: a SetTemperature(u, v) that succeeds records the coordinator's write
\* of v for u and leaves the stored state of u with targetTemperature = v and
\* the manual-override flag false; one that fails changes none of these.
\* When a later sync reads v from the device, no user having changed it,
\* shouldRespectManualOverride(u) is false; with no user change at all it is
\* false in every state.
C19_CoordinatorWrite ==
    /\ [][\A p \in Procs : pc[p] = "exec" => SetTemperatureStep(p)]_vars
    /\ [][\A p \in Procs : pc[p] \in {"presync", "sync"} => SyncAfterWrite(p)]_vars
    /\ [](\A u \in Units :
            ~shouldRespectManualOverride(miniSplits[u], globalMinTemp, globalMaxTemp))

\* a cycle has synced a unit whose setpoint an earlier cycle wrote
C19_Witness ==
    \E p \in Procs, i \in 1..Len(deviceIds) :
        /\ pc[p] = "weather" /\ kind[p] = "cycle"
        /\ Len(FetchesOf(trace[p])) = Len(deviceIds)
        /\ LastPass(p)[i].ok
        /\ coordinatorTemperatureSet[deviceIds[i]] # 0
        /\ miniSplits[deviceIds[i]].targetTemperature = coordinatorTemperatureSet[deviceIds[i]]
        /\ ~miniSplits[deviceIds[i]].manualTemperatureOverride

\* ------------------------------------------------------------------
\* handler p is in a coordination cycle and the collaborator reports not
\* authenticated
Degraded(p) == InCycle(p) /\ ~authenticated

\* C14: degraded mode.  While the collaborator reports not authenticated, a
\* coordination cycle makes no getDeviceStatus, setThermostatMode or
\* setThermostatTemperature call, none of its steps changes a unit's stored
\* state, the record of coordinator temperature writes or a device, and it
\* reaches its return with a result whose success is true.
C14_DegradedMode ==
    /\ [](\A p \in Procs : Degraded(p) =>
              /\ trace[p] = << >> /\ issued[p] = << >>
              /\ pc[p] \in {"weather", "commit"}
              /\ pc[p] = "weather" => ENABLED Decide(p)
              /\ pc[p] = "commit" => CycleResult(p).success /\ ENABLED Commit(p))
    /\ [][(\E p \in Procs : Degraded(p)) =>
              UNCHANGED << miniSplits, coordinatorTemperatureSet, dev >>]_vars

\* an unauthenticated cycle at its return, with units known online from an
\* earlier sync and actions generated for them that were not sent
C14_Witness ==
    \E p \in Procs :
        /\ pc[p] = "commit" /\ Degraded(p)
        /\ actions[p] # << >>
        /\ \E u \in Units : miniSplits[u].isOnline

\* ------------------------------------------------------------------
\* the request is answered 400 with the given error, no coordinator method
\* is entered and no state changes
Refused(error) ==
    /\ pc'["api"] = "replied"
    /\ response' = [status |-> 400, error |-> error]
    /\ UNCHANGED << smVars, isRunning, coordinationTimer, kind, idx, systemMode,
                    actions, issued, clean, trace, cycleConflicts, envVars,
                    modeChangeHistory, conflicts >>

\* the rule of the range route that error names is violated by the body
NamesViolatedRule(error, minTemp, maxTemp) ==
    \/ /\ error = NotNumbersError
       /\ minTemp.type # "number" \/ maxTemp.type # "number"
    \/ /\ error = RangeOrderError
       /\ minTemp.type = "number" /\ maxTemp.type = "number"
       /\ minTemp.value >= maxTemp.value
    \/ /\ error = RangeLimitsError
       /\ minTemp.type = "number" /\ maxTemp.type = "number"
       /\ minTemp.value < 50 \/ maxTemp.value > 90

\* the body of a range request breaks a rule of the claim
BadRangeBody(minTemp, maxTemp) ==
    \/ minTemp.type # "number" \/ maxTemp.type # "number"
    \/ minTemp.value >= maxTemp.value
    \/ minTemp.value < 50
    \/ maxTemp.value > 90

\* C18: at the coordinator API, a mode request whose mode is not heat, cool
\* or off, and a temperature-range request with a non-numeric bound, with
\* min >= max, with min < 50 or with max > 90, is answered 400 with an error
\* that names a rule the request violates; no coordinator method is entered
\* and no state changes.
C18_ApiValidation ==
    /\ [][\A m \in ModeBodies : PostMode(m) /\ m \notin {"heat", "cool", "off"} =>
              Refused(InvalidModeError)]_vars
    /\ [][\A b \in RangeBodies : PostTemperatureRange(b[1], b[2]) /\ BadRangeBody(b[1], b[2]) =>
              /\ Refused(response'.error)
              /\ NamesViolatedRule(response'.error, b[1], b[2])]_vars

\* a range request with min above max has been answered 400, after the state
\* has left its defaults
C18_Witness ==
    /\ pc["api"] = "replied"
    /\ response = [status |-> 400, error |-> RangeOrderError]
    /\ globalMode # "off"

\* ------------------------------------------------------------------
\* the call returned temperature t without a fetch / after a fetch
ReturnedCached(t) ==
    weatherResult' = [returned |-> TRUE, temperature |-> t, log |-> "Using cached weather data"]

\* what a call of getWeatherData whose fetch, if made, ends with o does
WeatherCall(o) ==
    GetWeatherData(o) =>
        /\ weatherResult'.returned
        /\ IF isCacheValid
           THEN /\ ReturnedCached(cachedData.temperature)
                /\ UNCHANGED << cachedData, lastFetchTime >>
           ELSE /\ weatherResult'.log # "Using cached weather data"
                /\ IF o.ok
                   THEN /\ weatherResult'.temperature = o.temperature
                        /\ cachedData' = [isNull |-> FALSE, temperature |-> o.temperature]
                        /\ isCacheValid'
                   ELSE /\ UNCHANGED << cachedData, lastFetchTime >>
                        /\ ~isCacheValid'
                        /\ weatherResult'.temperature =
                              IF cachedData.isNull THEN 70 ELSE cachedData.temperature

\* C17: getWeatherData always returns.  While the cache is younger than the
\* TTL it returns the cached value without a fetch; otherwise it fetches, and
\* on success caches and returns the new value; on failure it returns the
\* last cached value if there is one, isCacheValid() then being false, and
\* otherwise the fallback 70, which is not stored in the cache.
C17_WeatherNeverFails ==
    [][\A o \in FetchOutcomes : WeatherCall(o)]_vars

\* an expired value has been returned after a failed fetch, at the age of
\* exactly the TTL
C17_Witness ==
    /\ weatherResult.log = "Returning expired cached weather data due to API error"
    /\ clock - lastFetchTime = cacheDurationMs
    /\ weatherResult.temperature = cachedData.temperature

\* ------------------------------------------------------------------
\* the entries of a log are consecutive events in the order of their creation
InOriginalOrder(log) ==
    \A i \in 1..(Len(log) - 1) : log[i + 1].timestamp = log[i].timestamp + 1

\* adding an event to log gives log2: the new event is the last entry, the
\* log grows by one entry until it holds limit entries and stays there
Appended(log, log2, limit) ==
    /\ log2[Len(log2)] = NewEvent(log)
    /\ Len(log2) = IF Len(log) < limit THEN Len(log) + 1 ELSE limit

\* C11: bounded logs.  modeChangeHistory never holds more than 1000 entries
\* and conflicts never more than 100; an event added to a full log evicts
\* the oldest entry, so that the log holds the most recent events, the new
\* one last, in the order of their creation.
C11_BoundedLogs ==
    /\ [](/\ Len(modeChangeHistory) <= 1000 /\ InOriginalOrder(modeChangeHistory)
          /\ Len(conflicts) <= 100 /\ InOriginalOrder(conflicts))
    /\ [][AddModeChangeEvent => Appended(modeChangeHistory, modeChangeHistory', 1000)]_vars
    /\ [][AddConflictEvent => Appended(conflicts, conflicts', 100)]_vars

\* both logs are full and have evicted entries
C11_Witness ==
    /\ Len(modeChangeHistory) = 1000 /\ modeChangeHistory[1].timestamp > 2
    /\ Len(conflicts) = 100 /\ conflicts[1].timestamp > 2

\* ------------------------------------------------------------------
\* the setTemperature actions of a list, in their order
SetTemperaturesOf(acts) == SelectSeq(acts, LAMBDA a : a.action = "setTemperature")

\* the setMode actions of a list, in their order
SetModesOf(acts) == SelectSeq(acts, LAMBDA a : a.action = "setMode")

\* the call setGlobalTemperatureRangeImmediate(minTemp, maxTemp) updates the
\* range, leaves the global mode, and its action list holds no setMode and
\* the setTemperature actions that generateCoordinationActions gives for the
\* same state with the global mode as the target mode
ImmediateAsStep4(minTemp, maxTemp) ==
    SetGlobalTemperatureRangeImmediate("api", minTemp, maxTemp) =>
        /\ globalMinTemp' = minTemp /\ globalMaxTemp' = maxTemp
        /\ globalMode' = globalMode
        /\ SetModesOf(actions'["api"]) = << >>
        /\ actions'["api"] =
              SetTemperaturesOf(generateCoordinationActions(miniSplits, globalMode,
                                                            minTemp, maxTemp, schedule))

\* C21: setGlobalTemperatureRangeImmediate(min, max) with a valid range
\* updates the global range, leaves globalMode unchanged, emits no setMode
\* action and emits exactly the setTemperature actions that the action
\* generation of a full cycle would emit for the same state with the target
\* mode equal to the current global mode.
C21_ImmediateMatchesStep4 ==
    [][\A r \in ValidRanges : ImmediateAsStep4(r[1], r[2])]_vars

\* ------------------------------------------------------------------
\* the units setGlobalMode(m) has to address: online and in another mode
UnitsToSwitch(m) == {d \in Units : miniSplits[d].isOnline /\ miniSplits[d].mode # m}

\* the call setGlobalMode(m) sets the global mode at once and builds one
\* setMode(m) for each unit to switch and nothing else
SetGlobalModeCall(m) ==
    SetGlobalMode("api", m) =>
        /\ globalMode' = m
        /\ Len(actions'["api"]) = Cardinality(UnitsToSwitch(m))
        /\ \A d \in UnitsToSwitch(m) :
              \E i \in 1..Len(actions'["api"]) : actions'["api"][i] = SetModeAction(d, m)

\* handler p is inside setGlobalMode
InSetGlobalMode(p) == kind[p] = "setMode" /\ pc[p] \in {"exec", "commit"}

\* C22: setGlobalMode(mode, reason) sets globalMode to mode at once, sends
\* setMode(mode) to the online units whose mode differs from it and to no
\* other, sends no setTemperature, and changes neither a unit's stored state
\* or setpoint nor the global range.
C22_SetGlobalMode ==
    /\ [][\A m \in Modes : SetGlobalModeCall(m)]_vars
    /\ [](\A p \in Procs : InSetGlobalMode(p) =>
              /\ IsPrefix(issued[p], actions[p])
              /\ globalMode \in Modes
              /\ \A i \in 1..Len(actions[p]) :
                    /\ actions[p][i] = SetModeAction(actions[p][i].deviceId, globalMode)
                    /\ miniSplits[actions[p][i].deviceId].isOnline
                    /\ miniSplits[actions[p][i].deviceId].mode # globalMode)
    /\ [][(\E p \in Procs : InSetGlobalMode(p) \/ InSetGlobalMode(p)') =>
              /\ UNCHANGED << miniSplits, globalMinTemp, globalMaxTemp,
                              coordinatorTemperatureSet >>
              /\ \A d \in Units : dev'[d].setpoint = dev[d].setpoint]_vars

\* setGlobalMode has sent its commands, and a unit was not addressed
C22_Witness ==
    \E p \in Procs :
        /\ InSetGlobalMode(p) /\ pc[p] = "commit"
        /\ issued[p] = actions[p] /\ issued[p] # << >>
        /\ Len(issued[p]) < Cardinality(Units)

\* ------------------------------------------------------------------
\* the last entry of a log
LastEvent(log) == log[Len(log)]

\* C25: updateGlobalMode(mode, reason, outsideTemp) changes nothing and appends
\* no history entry when mode is the current global mode; otherwise it sets
\* globalMode to mode and appends exactly one global event (no unit id) that
\* carries the previous mode, the new mode, the reason and the outside
\* temperature.  The commit of a cycle makes one such call, so it appends at
\* most one global event.
C25_UpdateGlobalMode ==
    [][\A m \in Modes, c \in GlobalModeCalls :
          UpdateGlobalMode(m, c.reason, c.outsideTemp) =>
             /\ UNCHANGED << miniSplits, conflicts, globalMinTemp, globalMaxTemp >>
             /\ IF m = globalMode
                THEN UNCHANGED << globalMode, modeChangeHistory >>
                ELSE /\ globalMode' = m
                     /\ modeChangeHistory' =
                           Append(modeChangeHistory,
                                  [ timestamp |-> clock, deviceId |-> << >>,
                                    previousMode |-> globalMode, newMode |-> m,
                                    reason |-> c.reason, outsideTemp |-> c.outsideTemp ])]_vars

\* a cycle's commit and a manual call have each changed the global mode
C25_Witness ==
    /\ Len(modeChangeHistory) >= 2
    /\ \E i \in 1..Len(modeChangeHistory) :
          /\ modeChangeHistory[i].reason = "coordinator_logic"
          /\ modeChangeHistory[i].outsideTemp = << 60 >>
    /\ LastEvent(modeChangeHistory).deviceId = << >>
    /\ LastEvent(modeChangeHistory).reason = "manual_override"
    /\ LastEvent(modeChangeHistory).newMode = globalMode

\* ------------------------------------------------------------------
\* the fields of a unit's entry other than those of updates are those of
\* its existing entry, or the defaults mode off and isOnline false
FieldsKept(ms, ms2, deviceId, updates) ==
    \A f \in (DOMAIN ms2[deviceId]) \ (DOMAIN updates) :
        IF deviceId \in DOMAIN ms
        THEN ms2[deviceId][f] = ms[deviceId][f]
        ELSE /\ f = "mode" => ms2[deviceId][f] = "off"
             /\ f = "isOnline" => ms2[deviceId][f] = FALSE

\* the fields of updates are written to the unit's entry
FieldsWritten(ms2, deviceId, updates) ==
    \A f \in DOMAIN updates : ms2[deviceId][f] = updates[f]

\* every other unit's entry is left as it was
OthersUnchanged(ms, ms2, deviceId) ==
    /\ DOMAIN ms2 = (DOMAIN ms) \cup {deviceId}
    /\ \A d \in (DOMAIN ms) \ {deviceId} : ms2[d] = ms[d]

\* one event scoped to the unit is appended if and only if an entry existed
\* and the merged mode differs from its mode
UnitEventRecorded(ms, ms2, log, log2, now, deviceId) ==
    IF deviceId \in DOMAIN ms /\ ms2[deviceId].mode # ms[deviceId].mode
    THEN /\ Len(log2) = Len(log) + 1
         /\ SubSeq(log2, 1, Len(log)) = log
         /\ LastEvent(log2).deviceId = << deviceId >>
         /\ LastEvent(log2).previousMode = ms[deviceId].mode
         /\ LastEvent(log2).newMode = ms2[deviceId].mode
         /\ LastEvent(log2).timestamp = now
    ELSE log2 = log

\* C26: updateMiniSplitState(id, partial) overwrites only the fields present
\* in partial and keeps every other field of the unit's existing entry (or
\* the defaults mode off and isOnline false when there is no entry), appends
\* one mode-change event scoped to that unit if and only if an entry existed
\* and the merged mode differs from its prior mode, and leaves every other
\* unit's entry unchanged.
C26_UpdateMiniSplitState ==
    [][\A d \in Units, u \in StoreUpdates :
          UpdateMiniSplitState(d, u) =>
             /\ FieldsWritten(miniSplits', d, u)
             /\ FieldsKept(miniSplits, miniSplits', d, u)
             /\ OthersUnchanged(miniSplits, miniSplits', d)
             /\ UnitEventRecorded(miniSplits, miniSplits', modeChangeHistory,
                                  modeChangeHistory', clock, d)
             /\ UNCHANGED << globalMode, conflicts >>]_vars

\* the same, but for the fields of the existing entry that hold 0
C26_ExceptFalsyFields ==
    [][\A d \in Units, u \in StoreUpdates :
          UpdateMiniSplitState(d, u) =>
             /\ FieldsWritten(miniSplits', d, u)
             /\ \/ FieldsKept(miniSplits, miniSplits', d, u)
                \/ /\ d \in DOMAIN miniSplits
                   /\ miniSplits[d].currentTemperature = 0
                   /\ miniSplits'[d].currentTemperature = DefaultUnitTemp
             /\ OthersUnchanged(miniSplits, miniSplits', d)
             /\ UnitEventRecorded(miniSplits, miniSplits', modeChangeHistory,
                                  modeChangeHistory', clock, d)
             /\ UNCHANGED << globalMode, conflicts >>]_vars

\* ------------------------------------------------------------------
\* the entries a step appended to the conflict log
NewConflicts == SubSeq(conflicts', Len(conflicts) + 1, Len(conflicts'))

\* an entry of one of kinds is among the new entries, unresolved
RecordedAs(kinds) ==
    \E i \in 1..Len(NewConflicts) :
        NewConflicts[i].conflictType \in kinds /\ ~NewConflicts[i].resolved

\* the conflict conditions on the stored state
ModeMismatch ==
    Cardinality({miniSplits[d].mode :
                 d \in {u \in Units : miniSplits[u].isOnline /\ miniSplits[u].mode # "off"}}) > 1

TemperatureSpread ==
    \E a, b \in {u \in Units : miniSplits[u].isOnline} :
        miniSplits[b].currentTemperature - miniSplits[a].currentTemperature > 10

RapidSwitching ==
    Cardinality({i \in 1..Len(modeChangeHistory) :
                    modeChangeHistory[i].timestamp > clock - 3600000}) > 3

\* C23: in a cycle, each conflict condition that holds is appended to the
\* conflict log with its kind: mode_mismatch when online units are in more
\* than one mode other than off, temperature_spread when the current
\* temperatures of online units are more than 10 apart, rapid_switching when
\* more than 3 mode changes were recorded in the trailing hour.
C23_ConflictsRecorded ==
    [][DecideRecorded("api") =>
          /\ SubSeq(conflicts', 1, Len(conflicts)) = conflicts
          /\ ModeMismatch => RecordedAs({"mode_mismatch"})
          /\ TemperatureSpread => RecordedAs({"temperature_spread", "temperature_range"})
          /\ RapidSwitching => RecordedAs({"rapid_switching"})]_vars

\* what the cycle does record: a mode mismatch, and nothing else
C23_ModeMismatchOnly ==
    [][DecideRecorded("api") =>
          /\ SubSeq(conflicts', 1, Len(conflicts)) = conflicts
          /\ ModeMismatch => RecordedAs({"mode_mismatch"})
          /\ ~ModeMismatch => conflicts' = conflicts]_vars

\* ------------------------------------------------------------------
\* the entries both logs hold that differ in their resolved flag
FlagChanged(log, log2) ==
    \E j \in 1..Len(log) : j <= Len(log2) /\ log2[j].resolved # log[j].resolved

\* log2 is log but for entry conflictIndex (counted from 0), which is
\* resolved with resolution when log has such an entry
OnlyEntryResolved(log, log2, conflictIndex, resolution) ==
    /\ Len(log2) = Len(log)
    /\ \A j \in 1..Len(log) :
          IF j = conflictIndex + 1
          THEN log2[j] = [log[j] EXCEPT !.resolved = TRUE, !.resolution = << resolution >>]
          ELSE log2[j] = log[j]

\* C24: conflicts are advisory.  The actions of a cycle are those generated
\* from the units, the system mode and the range whether or not conflicts
\* were detected, and the cycle leaves every entry of the conflict log as it
\* was; resolveConflict(index, resolution) changes only the entry at index,
\* which it marks resolved; no other step changes a resolved flag.
C24_ConflictsAdvisory ==
    /\ [][DecideRecorded("api") =>
             /\ actions'["api"] =
                   generateCoordinationActions(miniSplits, systemMode'["api"], globalMinTemp,
                                               globalMaxTemp, schedule)
             /\ pc'["api"] = ExecuteEntry(actions'["api"])
             /\ SubSeq(conflicts', 1, Len(conflicts)) = conflicts]_vars
    /\ [][\A i \in ConflictIndexes, r \in Resolutions :
             ResolveConflict(i, r) => OnlyEntryResolved(conflicts, conflicts', i, r)]_vars
    /\ [][FlagChanged(conflicts, conflicts') =>
             \E i \in ConflictIndexes, r \in Resolutions : ResolveConflict(i, r)]_vars

\* a cycle that detected conflicts has generated actions and goes on to
\* execute them, and of the two conflicts in the log the second alone has
\* been resolved
C24_Witness ==
    /\ cycleConflicts["api"] # << >>
    /\ actions["api"] # << >>
    /\ pc["api"] = "exec"
    /\ Len(conflicts) = 2
    /\ ~conflicts[1].resolved
    /\ conflicts[2].resolved /\ conflicts[2].resolution = << "fixed" >>

\* ------------------------------------------------------------------
\* the command handler p is about to send switches a unit that is off to
\* heat or cool
SwitchesOnAgain(p) ==
    LET a == actions[p][idx[p]]
    IN /\ a.action = "setMode"
       /\ a.mode # "off"
       /\ dev[a.deviceId].mode = "off"

\* C27: emergencyOff called while a cycle is in flight is not undone by that
\* cycle.  The cycle sends no setMode(heat) or setMode(cool) to a unit that
\* emergencyOff has switched off, and when the cycle returns after
\* emergencyOff set the global mode to off, the global mode is still off.
C27_EmergencyOffNotUndone ==
    /\ [][ExecuteAction("start") => ~SwitchesOnAgain("start")]_vars
    /\ [][Commit("start") /\ globalMode = "off" => globalMode' = "off"]_vars

\* the first half alone
C27_NoSwitchOnAfterOff ==
    [][ExecuteAction("start") => ~SwitchesOnAgain("start")]_vars

\* the second half alone
C27_GlobalModeStaysOff ==
    [][Commit("start") /\ globalMode = "off" => globalMode' = "off"]_vars

\* ------------------------------------------------------------------
\* start() calls setInterval
ArmsTimer == Commit("start") /\ kind["start"] = "start"

\* C28: for every interleaving of start() and stop(), the timer is armed only
\* while isRunning holds, start() arms a timer only when none is armed, and
\* the timer's callback begins a cycle only while isRunning holds, that is
\* not after stop() returned with no later start().
C28_TimerLifecycle ==
    /\ [](coordinationTimer => isRunning)
    /\ [][ArmsTimer => ~coordinationTimer]_vars
    /\ [][TimerTick => isRunning]_vars

\* the three parts, each alone
C28_ArmedOnlyWhileRunning == coordinationTimer => isRunning

C28_OneTimer == [][ArmsTimer => ~coordinationTimer]_vars

C28_NoTickAfterStop == [][TimerTick => isRunning]_vars

\* ------------------------------------------------------------------
\* C29: in every reachable state globalMode and the mode of every unit's
\* entry are one of heat, cool and off, whatever mode the device reports at
\* a sync and whatever mode reaches setGlobalMode.
C29_ModesValid ==
    /\ globalMode \in Modes
    /\ \A d \in DOMAIN miniSplits : miniSplits[d].mode \in Modes

\* the two parts, each alone
C29_GlobalModeValid == globalMode \in Modes

C29_UnitModesValid == \A d \in DOMAIN miniSplits : miniSplits[d].mode \in Modes

\* ------------------------------------------------------------------
\* C30: loading the persisted state is total and faithful.  After saveState,
\* the next process's loadState builds the same globalMode, global range,
\* unit map, mode-change history and conflict log, in the same order; when
\* there is no state file or the file cannot be read, loadState builds the
\* defaults: globalMode off, the range 68 to 72, no units, empty logs.
C30_LoadAfterSave ==
    /\ [][SaveAndRestart =>
             UNCHANGED << globalMode, globalMinTemp, globalMaxTemp, miniSplits,
                          modeChangeHistory, conflicts >>]_vars
    /\ [][(\E f \in UnreadableFiles : Restart(f)) =>
             /\ globalMode' = "off"
             /\ globalMinTemp' = 68 /\ globalMaxTemp' = 72
             /\ miniSplits' = << >>
             /\ modeChangeHistory' = << >> /\ conflicts' = << >>]_vars

\* the same, for the stores whose range holds numbers
C30_LoadAfterSaveOfNumbers ==
    /\ [][SaveAndRestart /\ ~IsNaN(globalMinTemp) /\ ~IsNaN(globalMaxTemp) =>
             UNCHANGED << globalMode, globalMinTemp, globalMaxTemp, miniSplits,
                          modeChangeHistory, conflicts >>]_vars
    /\ [][(\E f \in UnreadableFiles : Restart(f)) =>
             /\ globalMode' = "off"
             /\ globalMinTemp' = 68 /\ globalMaxTemp' = 72
             /\ miniSplits' = << >>
             /\ modeChangeHistory' = << >> /\ conflicts' = << >>]_vars

====
